---- MODULE Spec2Model ----
(***************************************************************************)
(* A model of the sqlparser crate: the tokenizer (src/tokenizer.rs), the   *)
(* parser cursor, statement loop and expression precedence engine          *)
(* (src/parser.rs), the AST rendering (src/ast/mod.rs, src/ast/value.rs)   *)
(* and the interval value computations (src/ast/value/datetime.rs).        *)
(*                                                                         *)
(* Text is a TLA+ string; a character is a string of length 1.  Rust's     *)
(* Option::None is the record None, a Result is a record with field st     *)
(* ("Ok" or "Err").  The parser's mutable cursor is threaded through the   *)
(* parsing operators as the field index of their results.                  *)
(***************************************************************************)
EXTENDS Integers, Sequences, FiniteSets, TLC

VARIABLES
    tokens,      \* Parser.tokens
    index,       \* Parser.index
    stmts,       \* parse_sql: the local stmts
    expecting_statement_delimiter, \* parse_sql: the local flag
    pc,          \* position of the running procedure
    result,      \* the value returned by the procedure, NotYet before
    query,       \* Tokenizer.query, the text being tokenized
    pos,         \* number of characters of query consumed by the Peekable
    line,        \* Tokenizer.line
    col,         \* Tokenizer.col
    out,         \* tokenize: the local tokens vector
    expr1,       \* round trip: the parse of the rendered expression
    text,        \* round trip: the rendering of the parsed expression
    interval,    \* an IntervalValue
    computed,    \* result of IntervalValue::computed_permissive
    matched,     \* result of IntervalValue::fields_match_precision
    value_str,   \* tokenize_interval: the parameter value
    offset,      \* tokenize_interval: number of characters the for loop has taken
    interval_toks, \* tokenize_interval: the local toks
    num_buf,     \* tokenize_interval: the local num_buf
    last_field_is_frac, \* tokenize_interval: the local flag
    pending,     \* cursor: what the next_token calls not yet undone returned
    last_call,   \* cursor: the last call on the Parser
    saved,       \* cursor: the index parse_table_factor saved, None if none
    build_tokens,        \* build_parsed_datetime: the parameter tokens
    build_leading_field, \* build_parsed_datetime: the parameter leading_field
    build_precision,     \* build_parsed_datetime: the parameter precision
    actual,      \* build_parsed_datetime: number of tokens the iterator actual has yielded
    zipped,      \* build_parsed_datetime: number of elements of expected the zip has yielded
    current_field, \* build_parsed_datetime: the local current_field
    pdt,         \* build_parsed_datetime: the local pdt
    seconds_seen, \* build_parsed_datetime: the local seconds_seen
    warnings,    \* build_parsed_datetime: the local warnings
    values,      \* parse_tab_value: the local values
    content      \* parse_tab_value: the local content

vars == <<tokens, index, stmts, expecting_statement_delimiter, pc, result,
          query, pos, line, col, out, expr1, text, interval, computed, matched,
          value_str, offset, interval_toks, num_buf, last_field_is_frac,
          pending, last_call, saved,
          build_tokens, build_leading_field, build_precision, actual, zipped,
          current_field, pdt, seconds_seen, warnings, values, content>>

cursorVars == <<pending, last_call, saved>>

buildVars == <<build_tokens, build_leading_field, build_precision, actual, zipped,
               current_field, pdt, seconds_seen, warnings>>

copyVars == <<values, content>>

\* no call on the Parser is recorded
CursorIdle ==
    /\ pending = <<>>
    /\ last_call = [op |-> "new"]
    /\ saved = [type |-> "None"]

\* build_parsed_datetime is not running
BuildIdle ==
    /\ build_tokens = <<>> /\ build_leading_field = "Year"
    /\ build_precision = [type |-> "None"]
    /\ actual = 0 /\ zipped = 0 /\ current_field = "Year"
    /\ pdt = [type |-> "None"] /\ seconds_seen = 0 /\ warnings = <<>>

\* parse_tab_value is not running
CopyIdle ==
    /\ values = <<>> /\ content = ""

datetimeVars == <<value_str, offset, interval_toks, num_buf, last_field_is_frac>>

\* tokenize_interval is not running
DateTimeIdle ==
    /\ value_str = "" /\ offset = 0 /\ interval_toks = <<>>
    /\ num_buf = "" /\ last_field_is_frac = FALSE

-----------------------------------------------------------------------------
(* Bounds of the model *)

\* parse_sql inputs: number of pieces a token vector is assembled from
MaxPieces == 3
\* expression inputs: number of infix operators in an operator chain
MaxChain == 2
\* tokenizer inputs: number of characters of the text
MaxChars == 3
\* interval inputs: largest value of a field
MaxField == 1
\* longest value string of an interval that is built from single characters
MaxIntervalChars == 3
\* cursor inputs: number of tokens of the vector
MaxCursorTokens == 3
\* cursor: number of next_token calls that are not undone
MaxCursorCalls == 3

-----------------------------------------------------------------------------
(* Option and Result *)

None == [type |-> "None"]
Some(n) == [type |-> "Some", v |-> n]
NotYet == [st |-> "NotYet"]

Ok(v, i) == [st |-> "Ok", val |-> v, index |-> i]
Err(m, i) == [st |-> "Err", msg |-> m, index |-> i]
\* a Rust panic (a failed assert!, unwrap() on None, panic!)
Panic(m, i) == [st |-> "Panic", msg |-> m, index |-> i]
\* a production of the grammar that this model does not cover
Unmodelled(i) == [st |-> "Unmodelled", msg |-> "unmodelled", index |-> i]

\* the one element of a set of one element.  let y = v; body reads as
\* The({body : y \in {v}}): v is computed once.  let r = v?; body reads as
\* The({IF r.st # "Ok" THEN r ELSE body : r \in {v}}): an error of v is
\* returned, otherwise body reads its result.
The(S) == CHOOSE w \in S : TRUE

-----------------------------------------------------------------------------
(* Characters and strings *)

CharAt(s, i) == SubSeq(s, i, i)

\* the single quote character
SQ == "'"
\* the double quote character
DQ == "\""

LowerCase == "abcdefghijklmnopqrstuvwxyz"
UpperCase == "ABCDEFGHIJKLMNOPQRSTUVWXYZ"
Digits == "0123456789"

RECURSIVE IndexIn(_, _, _)
IndexIn(c, s, i) ==
    IF i > Len(s) THEN 0
    ELSE IF CharAt(s, i) = c THEN i
    ELSE IndexIn(c, s, i + 1)

IsIn(c, s) == Len(c) = 1 /\ IndexIn(c, s, 1) > 0
IsDigit(c) == IsIn(c, Digits)

to_uppercase_char(c) ==
    IF IsIn(c, LowerCase) THEN CharAt(UpperCase, IndexIn(c, LowerCase, 1)) ELSE c

RECURSIVE to_uppercase(_)
to_uppercase(s) ==
    IF s = "" THEN "" ELSE to_uppercase_char(Head(s)) \o to_uppercase(Tail(s))

RECURSIVE NatToString(_)
\* the decimal text of an unsigned integer
NatToString(n) ==
    IF n < 10 THEN CharAt(Digits, n + 1)
    ELSE NatToString(n \div 10) \o CharAt(Digits, (n % 10) + 1)

RECURSIVE DigitsValue(_, _)
\* str::parse::<u64> of a string of digits (acc carries the value so far)
DigitsValue(s, acc) ==
    IF s = "" THEN acc
    ELSE DigitsValue(Tail(s), acc * 10 + (IndexIn(Head(s), Digits, 1) - 1))

RECURSIVE AllDigits(_)
AllDigits(s) == s = "" \/ (IsDigit(Head(s)) /\ AllDigits(Tail(s)))

RECURSIVE Contains(_, _)
Contains(s, c) == s # "" /\ (Head(s) = c \/ Contains(Tail(s), c))

-----------------------------------------------------------------------------
(* Tokens: enum Token, struct Word, enum Whitespace *)

Tok(t) == [type |-> t]
Word(value, quote_style, keyword) ==
    [type |-> "Word", value |-> value, quote_style |-> quote_style, keyword |-> keyword]
Number(s) == [type |-> "Number", value |-> s]
SingleQuotedString(s) == [type |-> "SingleQuotedString", value |-> s]
NationalStringLiteral(s) == [type |-> "NationalStringLiteral", value |-> s]
HexStringLiteral(s) == [type |-> "HexStringLiteral", value |-> s]
Parameter(s) == [type |-> "Parameter", value |-> s]
Char(c) == [type |-> "Char", value |-> c]
\* Whitespace::Space, Newline, Tab carry no text; the comments carry theirs
Whitespace(kind, s) == [type |-> "Whitespace", ws |-> kind, value |-> s]
Space == Whitespace("Space", "")
Newline == Whitespace("Newline", "")
Tab == Whitespace("Tab", "")

\* Option<char> of Word.quote_style: "" is None
NoQuote == ""

\* dialect::keywords::ALL_KEYWORDS, the part of the vocabulary the parser
\* productions of this model ask for
ALL_KEYWORDS ==
    { "ALL", "AND", "AS", "ASC", "BEGIN", "BETWEEN", "BY", "CASE", "CAST", "CHAIN",
      "COLLATE", "COMMIT", "COMMITTED", "COPY", "CREATE", "CURRENT", "DATE",
      "DAY", "DELETE", "DESC", "DISTINCT", "DROP", "ELSE", "END", "EXISTS",
      "EXTRACT", "FALSE", "FOLLOWING", "FROM", "GROUPS", "HOUR", "IN",
      "INSERT", "INTERVAL", "IS", "ISOLATION", "LEVEL", "LIKE", "MINUTE",
      "MONTH", "NO", "NOT", "NULL", "ONLY", "OR", "ORDER", "OVER",
      "PARTITION", "PEEK", "PRECEDING", "RANGE", "READ", "REPEATABLE",
      "ROLLBACK", "ROW", "ROWS", "SECOND", "SELECT", "SERIALIZABLE", "SET",
      "SHOW", "START", "TAIL", "THEN", "TIME", "TIMESTAMP", "TO",
      "TRANSACTION", "TRUE", "UNBOUNDED", "UNCOMMITTED", "UPDATE", "VALUES",
      "WHEN", "WHERE", "WITH", "WORK", "GROUP", "HAVING", "WRITE", "YEAR", "ALTER",
      "UNION", "EXCEPT", "INTERSECT", "LIMIT", "OFFSET", "FETCH", "LATERAL",
      "CROSS", "JOIN", "APPLY", "OUTER", "NATURAL", "INNER", "LEFT", "RIGHT",
      "FULL", "ON", "USING", "STDIN",
      "BIGINT", "BOOLEAN", "BYTEA", "CHAR", "CHARACTER", "DEC", "DECIMAL",
      "DOUBLE", "FLOAT", "INT", "INTEGER", "NUMERIC", "PRECISION", "REAL",
      "REGCLASS", "SMALLINT", "TEXT", "UUID", "VARCHAR", "VARYING",
      "WITHOUT", "ZONE" }

make_word(word, quote_style) ==
    LET word_uppercase == to_uppercase(word)
        is_keyword == quote_style = NoQuote /\ word_uppercase \in ALL_KEYWORDS
    IN  Word(word, quote_style, IF is_keyword THEN word_uppercase ELSE "")

make_keyword(keyword) == make_word(keyword, NoQuote)

\* (the MySQL backquote arm is left out: no text of the model holds one)
matching_end_quote(ch) ==
    CASE ch = DQ -> DQ
      [] ch = "[" -> "]"

\* impl Display for Word
WordToString(w) ==
    IF w.quote_style = NoQuote THEN w.value
    ELSE w.quote_style \o w.value \o matching_end_quote(w.quote_style)

\* impl Display for Whitespace
WhitespaceToString(t) ==
    CASE t.ws = "Space" -> " "
      [] t.ws = "Newline" -> "\n"
      [] t.ws = "Tab" -> "\t"
      [] t.ws = "SingleLineComment" -> "--" \o t.value
      [] t.ws = "MultiLineComment" -> "/*" \o t.value \o "*/"

\* impl Display for Token
TokenToString(t) ==
    CASE t.type = "Word" -> WordToString(t)
      [] t.type = "Number" -> t.value
      [] t.type = "Char" -> t.value
      [] t.type = "SingleQuotedString" -> SQ \o t.value \o SQ
      [] t.type = "NationalStringLiteral" -> "N" \o SQ \o t.value \o SQ
      [] t.type = "HexStringLiteral" -> "X" \o SQ \o t.value \o SQ
      [] t.type = "Parameter" -> "$" \o t.value
      [] t.type = "Comma" -> ","
      [] t.type = "Whitespace" -> WhitespaceToString(t)
      [] t.type = "Eq" -> "="
      [] t.type = "Neq" -> "<>"
      [] t.type = "Lt" -> "<"
      [] t.type = "Gt" -> ">"
      [] t.type = "LtEq" -> "<="
      [] t.type = "GtEq" -> ">="
      [] t.type = "Plus" -> "+"
      [] t.type = "Minus" -> "-"
      [] t.type = "Mult" -> "*"
      [] t.type = "Div" -> "/"
      [] t.type = "Mod" -> "%"
      [] t.type = "JsonGet" -> "->"
      [] t.type = "JsonGetAsText" -> "->>"
      [] t.type = "JsonGetPath" -> "#>"
      [] t.type = "JsonGetPathAsText" -> "#>>"
      [] t.type = "JsonContainsJson" -> "@>"
      [] t.type = "JsonContainedInJson" -> "<@"
      [] t.type = "JsonContainsField" -> "?"
      [] t.type = "JsonContainsAnyFields" -> "?|"
      [] t.type = "JsonContainsAllFields" -> "?&"
      [] t.type = "JsonConcat" -> "||"
      [] t.type = "JsonDeletePath" -> "#-"
      [] t.type = "JsonContainsPath" -> "@?"
      [] t.type = "JsonApplyPathPredicate" -> "@@"
      [] t.type = "LParen" -> "("
      [] t.type = "RParen" -> ")"
      [] t.type = "Period" -> "."
      [] t.type = "Colon" -> ":"
      [] t.type = "DoubleColon" -> "::"
      [] t.type = "SemiColon" -> ";"
      [] t.type = "Backslash" -> "\\"
      [] t.type = "LBracket" -> "["
      [] t.type = "RBracket" -> "]"
      [] t.type = "Ampersand" -> "&"
      [] t.type = "LBrace" -> "{"
      [] t.type = "RBrace" -> "}"

-----------------------------------------------------------------------------
(* The dialect: the character classes of the ANSI dialect *)

IsLetter(ch) == IsIn(ch, LowerCase) \/ IsIn(ch, UpperCase)
is_identifier_start(ch) == IsLetter(ch)
is_identifier_part(ch) == IsLetter(ch) \/ IsDigit(ch) \/ ch = "_"
is_delimited_identifier_start(ch) == ch = DQ

-----------------------------------------------------------------------------
(* The tokenizer: src/tokenizer.rs.  The Peekable<Chars> is the pair of    *)
(* the text q and the number p of characters consumed; ln and cl are the   *)
(* line and col counters of the Tokenizer.                                  *)

\* chars.peek(): "" is None
Peek(q, p) == IF p < Len(q) THEN CharAt(q, p + 1) ELSE ""

TokOk(t, p) == [st |-> "Ok", tok |-> t, pos |-> p]
TokErr(m) == [st |-> "Err", msg |-> m]

\* the closures handed to peeking_take_while
Holds(pred, ch) ==
    CASE pred.kind = "identifier_part" -> is_identifier_part(ch)
      [] pred.kind = "digit" -> IsDigit(ch)
      [] pred.kind = "ne" -> ch # pred.ch

RECURSIVE peeking_take_while(_, _, _)
peeking_take_while(q, p, pred) ==
    LET ch == Peek(q, p)
    IN  IF ch # "" /\ Holds(pred, ch)
        THEN The({
                  [s |-> ch \o r.s, pos |-> r.pos]
               : r \in {peeking_take_while(q, p + 1, pred)}})
        ELSE [s |-> "", pos |-> p]

consume_and_return(q, p, t) == TokOk(t, p + 1)

\* after the first char is consumed (p is past it)
tokenize_word(first_char, q, p) ==
    The({
         [s |-> first_char \o r.s, pos |-> r.pos]
      : r \in {peeking_take_while(q, p, [kind |-> "identifier_part"])}})

RECURSIVE single_quoted_loop(_, _)
\* the while loop of tokenize_single_quoted_string
single_quoted_loop(q, p) ==
    LET ch == Peek(q, p)
    IN  IF ch = "" THEN [s |-> "", pos |-> p]
        ELSE IF ch = SQ
        THEN IF Peek(q, p + 1) = SQ
             THEN The({
                       [s |-> SQ \o r.s, pos |-> r.pos]
                    : r \in {single_quoted_loop(q, p + 2)}})
             ELSE [s |-> "", pos |-> p + 1]
        ELSE The({
                  [s |-> ch \o r.s, pos |-> r.pos]
               : r \in {single_quoted_loop(q, p + 1)}})

\* p is at the opening quote, which is consumed first
tokenize_single_quoted_string(q, p) == single_quoted_loop(q, p + 1)

RECURSIVE tokenize_multiline_comment(_, _, _, _)
tokenize_multiline_comment(q, p, s, maybe_closing_comment) ==
    LET ch == Peek(q, p)
    IN  IF ch = "" THEN TokErr("Unexpected EOF while in a multi-line comment")
        ELSE IF maybe_closing_comment /\ ch = "/"
        THEN TokOk(Whitespace("MultiLineComment", s), p + 1)
        ELSE LET s1 == IF maybe_closing_comment THEN s \o "*" ELSE s
                 mc == ch = "*"
             IN  tokenize_multiline_comment(q, p + 1,
                                            IF mc THEN s1 ELSE s1 \o ch, mc)

tokenize_parameter(q, p) ==
    The({
         IF n.s = ""
         THEN TokErr("parameter marker ($) was not followed by at least one digit")
         ELSE TokOk(Parameter(n.s), n.pos)
      : n \in {peeking_take_while(q, p + 1, [kind |-> "digit"])}})

RECURSIVE number_take_while(_, _, _)
\* the first peeking_take_while of tokenize_number, whose closure keeps
\* seen_decimal
number_take_while(q, p, seen_decimal) ==
    LET ch == Peek(q, p)
    IN  IF ch # "" /\ IsDigit(ch)
        THEN The({
                  [s |-> ch \o r.s, pos |-> r.pos]
               : r \in {number_take_while(q, p + 1, seen_decimal)}})
        ELSE IF ch = "." /\ ~seen_decimal
        THEN The({
                  [s |-> ch \o r.s, pos |-> r.pos]
               : r \in {number_take_while(q, p + 1, TRUE)}})
        ELSE [s |-> "", pos |-> p]

tokenize_number(q, p) ==
    The({
         IF Peek(q, m.pos) \in {"e", "E"}
         THEN The({
              The({
                   TokOk(Number(m.s \o "E" \o (IF neg THEN "-" ELSE "") \o e.s), e.pos)
                : e \in {peeking_take_while(q, IF neg THEN m.pos + 2 ELSE m.pos + 1,
                                      [kind |-> "digit"])}})
                : neg \in {Peek(q, m.pos + 1) = "-"}})
         ELSE TokOk(Number(m.s), m.pos)
      : m \in {number_take_while(q, p, FALSE)}})

\* the '.' arm of next_token: p is past the '.', the next char is a digit.
\* Every remaining char of chars is moved to a new string, which
\* tokenize_number reads; chars itself is left exhausted.
LeadingDotNumber(q, p) ==
    The({
    The({
         TokOk(r.tok, Len(q))
      : r \in {tokenize_number(chars_w_leading_zero, 0)}})
      : chars_w_leading_zero \in {"." \o SubSeq(q, p + 1, Len(q))}})

\* the arms of next_token for punctuation and operators
PunctuationToken(q, p, ch, ln, cl) ==
    LET n == Peek(q, p + 1)
        LineColError == TokErr("Tokenizer Error at Line: " \o NatToString(ln)
                               \o ", Col: " \o NatToString(cl))
    IN  CASE ch = "(" -> consume_and_return(q, p, Tok("LParen"))
          [] ch = ")" -> consume_and_return(q, p, Tok("RParen"))
          [] ch = "," -> consume_and_return(q, p, Tok("Comma"))
          [] ch = "-" ->
               IF n = "-"
               THEN The({
                         IF Peek(q, r.pos) # ""
                         THEN TokOk(Whitespace("SingleLineComment", r.s \o "\n"), r.pos + 1)
                         ELSE TokOk(Whitespace("SingleLineComment", r.s), r.pos)
                      : r \in {peeking_take_while(q, p + 2, [kind |-> "ne", ch |-> "\n"])}})
               ELSE IF n = ">"
               THEN IF Peek(q, p + 2) = ">"
                    THEN consume_and_return(q, p + 2, Tok("JsonGetAsText"))
                    ELSE TokOk(Tok("JsonGet"), p + 2)
               ELSE TokOk(Tok("Minus"), p + 1)
          [] ch = "/" ->
               IF n = "*" THEN tokenize_multiline_comment(q, p + 2, "", FALSE)
               ELSE TokOk(Tok("Div"), p + 1)
          [] ch = "+" -> consume_and_return(q, p, Tok("Plus"))
          [] ch = "*" -> consume_and_return(q, p, Tok("Mult"))
          [] ch = "%" -> consume_and_return(q, p, Tok("Mod"))
          [] ch = "#" ->
               IF n = ">"
               THEN IF Peek(q, p + 2) = ">"
                    THEN consume_and_return(q, p + 2, Tok("JsonGetPathAsText"))
                    ELSE TokOk(Tok("JsonGetPath"), p + 2)
               ELSE IF n = "-" THEN consume_and_return(q, p + 1, Tok("JsonDeletePath"))
               ELSE LineColError
          [] ch = "@" ->
               IF n = ">" THEN consume_and_return(q, p + 1, Tok("JsonContainsJson"))
               ELSE IF n = "?" THEN consume_and_return(q, p + 1, Tok("JsonContainsPath"))
               ELSE IF n = "@" THEN consume_and_return(q, p + 1, Tok("JsonApplyPathPredicate"))
               ELSE LineColError
          [] ch = "?" ->
               IF n = "|" THEN consume_and_return(q, p + 1, Tok("JsonContainsAnyFields"))
               ELSE IF n = "&" THEN consume_and_return(q, p + 1, Tok("JsonContainsAllFields"))
               ELSE TokOk(Tok("JsonContainsField"), p + 1)
          [] ch = "|" ->
               IF n = "|" THEN consume_and_return(q, p + 1, Tok("JsonConcat"))
               ELSE LineColError
          [] ch = "=" -> consume_and_return(q, p, Tok("Eq"))
          [] ch = "." ->
               IF n # "" /\ IsDigit(n) THEN LeadingDotNumber(q, p + 1)
               ELSE TokOk(Tok("Period"), p + 1)
          [] ch = "!" ->
               IF n = "=" THEN consume_and_return(q, p + 1, Tok("Neq"))
               ELSE LineColError
          [] ch = "<" ->
               IF n = "=" THEN consume_and_return(q, p + 1, Tok("LtEq"))
               ELSE IF n = ">" THEN consume_and_return(q, p + 1, Tok("Neq"))
               ELSE IF n = "@" THEN consume_and_return(q, p + 1, Tok("JsonContainedInJson"))
               ELSE TokOk(Tok("Lt"), p + 1)
          [] ch = ">" ->
               IF n = "=" THEN consume_and_return(q, p + 1, Tok("GtEq"))
               ELSE TokOk(Tok("Gt"), p + 1)
          [] ch = ":" ->
               IF n = ":" THEN consume_and_return(q, p + 1, Tok("DoubleColon"))
               ELSE TokOk(Tok("Colon"), p + 1)
          [] ch = ";" -> consume_and_return(q, p, Tok("SemiColon"))
          [] ch = "\\" -> consume_and_return(q, p, Tok("Backslash"))
          [] ch = "[" -> consume_and_return(q, p, Tok("LBracket"))
          [] ch = "]" -> consume_and_return(q, p, Tok("RBracket"))
          [] ch = "&" -> consume_and_return(q, p, Tok("Ampersand"))
          [] ch = "{" -> consume_and_return(q, p, Tok("LBrace"))
          [] ch = "}" -> consume_and_return(q, p, Tok("RBrace"))
          [] ch = "$" -> tokenize_parameter(q, p)
          [] OTHER -> consume_and_return(q, p, Char(ch))

DelimitedIdentifier_truncate(q, p, quote_start) ==
    The({
    The({
         IF Peek(q, r.pos) = quote_end
         THEN TokOk(make_word(r.s, quote_start), r.pos + 1)
         ELSE TokOk(make_word(r.s, quote_start), r.pos)
      : r \in {peeking_take_while(q, p + 1, [kind |-> "ne", ch |-> quote_end])}})
      : quote_end \in {matching_end_quote(quote_start)}})

\* the arm of next_token for a delimited (quoted) identifier
DelimitedIdentifier(q, p, quote_start) ==
    The({
    The({
         IF Peek(q, r.pos) = quote_end
         THEN TokOk(make_word(r.s, quote_start), r.pos + 1)
         ELSE TokErr("Expected close delimiter '" \o quote_end \o "' before EOF.")
      : r \in {peeking_take_while(q, p + 1, [kind |-> "ne", ch |-> quote_end])}})
      : quote_end \in {matching_end_quote(quote_start)}})

\* Tokenizer::next_token: the token at p, or tok = None at the end
Tokenizer_next_token(q, p, ln, cl) ==
    LET ch == Peek(q, p)
    IN  IF ch = "" THEN TokOk(None, p)
        ELSE IF ch = " " THEN consume_and_return(q, p, Space)
        ELSE IF ch = "\t" THEN consume_and_return(q, p, Tab)
        ELSE IF ch = "\n" THEN consume_and_return(q, p, Newline)
        ELSE IF ch = "\r"
        THEN TokOk(Newline, IF Peek(q, p + 1) = "\n" THEN p + 2 ELSE p + 1)
        ELSE IF ch = "N"
        THEN IF Peek(q, p + 1) = SQ
             THEN The({
                  TokOk(NationalStringLiteral(r.s), r.pos)
                    : r \in {tokenize_single_quoted_string(q, p + 1)}})
             ELSE The({
                  TokOk(make_word(r.s, NoQuote), r.pos)
                    : r \in {tokenize_word("N", q, p + 1)}})
        ELSE IF ch \in {"x", "X"}
        THEN IF Peek(q, p + 1) = SQ
             THEN The({
                  TokOk(HexStringLiteral(r.s), r.pos)
                    : r \in {tokenize_single_quoted_string(q, p + 1)}})
             ELSE The({
                  TokOk(make_word(r.s, NoQuote), r.pos)
                    : r \in {tokenize_word(ch, q, p + 1)}})
        ELSE IF is_identifier_start(ch)
        THEN The({
                  TokOk(make_word(r.s, NoQuote), r.pos)
               : r \in {tokenize_word(ch, q, p + 1)}})
        ELSE IF ch = SQ
        THEN The({
                  TokOk(SingleQuotedString(r.s), r.pos)
               : r \in {tokenize_single_quoted_string(q, p)}})
        ELSE IF is_delimited_identifier_start(ch)
        THEN DelimitedIdentifier(q, p, ch)
        ELSE IF IsDigit(ch) THEN tokenize_number(q, p)
        ELSE PunctuationToken(q, p, ch, ln, cl)

\* the match of tokenize on the token it is about to push: the line and
\* the column after it
LineColAfter(token, ln, cl) ==
    IF token = Newline THEN [line |-> ln + 1, col |-> 1]
    ELSE IF token = Tab THEN [line |-> ln, col |-> cl + 4]
    ELSE IF token.type = "Word" /\ token.quote_style = NoQuote
    THEN [line |-> ln, col |-> cl + Len(token.value)]
    ELSE IF token.type = "Word"
    THEN [line |-> ln, col |-> cl + Len(token.value) + 2]
    ELSE IF token.type \in {"Number", "SingleQuotedString", "Parameter"}
    THEN [line |-> ln, col |-> cl + Len(token.value)]
    ELSE [line |-> ln, col |-> cl + 1]

RECURSIVE tokenize_from(_, _, _, _, _)
\* Tokenizer::tokenize as a function: the while loop from position p with
\* the tokens acc pushed so far
tokenize_from(q, p, acc, ln, cl) ==
    The({
         IF r.st = "Err" THEN [st |-> "Err", msg |-> r.msg]
         ELSE IF r.tok = None THEN [st |-> "Ok", val |-> acc]
         ELSE The({
                   tokenize_from(q, r.pos, Append(acc, r.tok), lc.line, lc.col)
                : lc \in {LineColAfter(r.tok, ln, cl)}})
      : r \in {Tokenizer_next_token(q, p, ln, cl)}})

\* a new Tokenizer is at line 1, column 1
tokenize(q) == tokenize_from(q, 0, <<>>, 1, 1)

-----------------------------------------------------------------------------
(* The parser cursor: src/parser.rs.  toks is Parser.tokens, idx is        *)
(* Parser.index (0-based, the first unprocessed token).                     *)

\* self.tokens.get(i)
TokensGet(toks, i) == IF i >= 0 /\ i < Len(toks) THEN toks[i + 1] ELSE None

IsWhitespace(t) == t.type = "Whitespace"

\* the index prev_token is left with when its assert!(self.index > 0) fails
PanicIndex == -1

RECURSIVE next_token(_, _)
next_token(toks, idx) ==
    The({
         IF IsWhitespace(t) THEN next_token(toks, idx + 1)
         ELSE [tok |-> t, index |-> idx + 1]
      : t \in {TokensGet(toks, idx)}})

RECURSIVE peek_nth_token(_, _, _)
peek_nth_token(toks, idx, n) ==
    The({
         IF IsWhitespace(t) THEN peek_nth_token(toks, idx + 1, n)
         ELSE IF n = 0 THEN t
         ELSE peek_nth_token(toks, idx + 1, n - 1)
      : t \in {TokensGet(toks, idx)}})

peek_token(toks, idx) == peek_nth_token(toks, idx, 0)

prev_token_no_skip(toks, idx) ==
    IF ~(idx > 0) THEN PanicIndex ELSE idx - 1

RECURSIVE prev_token_past_eof(_, _)
prev_token_past_eof(toks, idx) ==
    IF ~(idx > 0) THEN PanicIndex
    ELSE IF TokensGet(toks, idx - 1) = None \/ IsWhitespace(TokensGet(toks, idx - 1))
    THEN prev_token_past_eof(toks, idx - 1)
    ELSE idx - 1

RECURSIVE prev_token(_, _)
prev_token(toks, idx) ==
    IF ~(idx > 0) THEN PanicIndex
    ELSE IF IsWhitespace(TokensGet(toks, idx - 1)) THEN prev_token(toks, idx - 1)
    ELSE idx - 1

\* Parser::expected
expected(what, found, idx) ==
    Err("Expected " \o what \o ", found: "
        \o (IF found = None THEN "EOF" ELSE TokenToString(found)), idx)

eq_ignore_ascii_case(a, b) == to_uppercase(a) = to_uppercase(b)

parse_keyword(toks, idx, kw) ==
    The({
         IF t.type = "Word" /\ eq_ignore_ascii_case(kw, t.keyword)
         THEN [ok |-> TRUE, index |-> next_token(toks, idx).index]
         ELSE [ok |-> FALSE, index |-> idx]
      : t \in {peek_token(toks, idx)}})

RECURSIVE parse_keywords_from_no_restore(_, _, _, _)
parse_keywords_from_no_restore(toks, idx, keywords, start) ==
    IF keywords = <<>> THEN [ok |-> TRUE, index |-> idx]
    ELSE The({
              IF ~r.ok THEN [ok |-> FALSE, index |-> idx]
              ELSE parse_keywords_from_no_restore(toks, r.index, Tail(keywords), start)
           : r \in {parse_keyword(toks, idx, Head(keywords))}})

RECURSIVE parse_keywords_from(_, _, _, _)
\* the for loop of parse_keywords; start is the index saved on entry
parse_keywords_from(toks, idx, keywords, start) ==
    IF keywords = <<>> THEN [ok |-> TRUE, index |-> idx]
    ELSE The({
              IF ~r.ok THEN [ok |-> FALSE, index |-> start]
              ELSE parse_keywords_from(toks, r.index, Tail(keywords), start)
           : r \in {parse_keyword(toks, idx, Head(keywords))}})

parse_keywords(toks, idx, keywords) ==
    parse_keywords_from(toks, idx, keywords, idx)

RECURSIVE FindKeyword(_, _)
\* keywords.iter().find(...): the first keyword equal to k, "" when none is
FindKeyword(keywords, k) ==
    IF keywords = <<>> THEN ""
    ELSE IF eq_ignore_ascii_case(Head(keywords), k) THEN Head(keywords)
    ELSE FindKeyword(Tail(keywords), k)

\* the kw of the result is "" for None
parse_one_of_keywords(toks, idx, keywords) ==
    The({
    The({
         IF found # ""
         THEN [kw |-> found, index |-> next_token(toks, idx).index]
         ELSE [kw |-> "", index |-> idx]
      : found \in {IF t.type = "Word" THEN FindKeyword(keywords, t.keyword) ELSE ""}})
      : t \in {peek_token(toks, idx)}})

RECURSIVE JoinOr(_)
JoinOr(keywords) ==
    IF Len(keywords) = 1 THEN Head(keywords)
    ELSE Head(keywords) \o " or " \o JoinOr(Tail(keywords))

expect_one_of_keywords(toks, idx, keywords) ==
    The({
         IF r.kw # "" THEN Ok(r.kw, r.index)
         ELSE expected("one of " \o JoinOr(keywords), peek_token(toks, idx), idx)
      : r \in {parse_one_of_keywords(toks, idx, keywords)}})

expect_keyword(toks, idx, kw) ==
    The({
         IF r.ok THEN Ok(TRUE, r.index)
         ELSE expected(kw, peek_token(toks, idx), idx)
      : r \in {parse_keyword(toks, idx, kw)}})

consume_token(toks, idx, t) ==
    IF peek_token(toks, idx) = t
    THEN [ok |-> TRUE, index |-> next_token(toks, idx).index]
    ELSE [ok |-> FALSE, index |-> idx]

expect_token(toks, idx, t) ==
    The({
         IF r.ok THEN Ok(TRUE, r.index)
         ELSE expected(TokenToString(t), peek_token(toks, idx), idx)
      : r \in {consume_token(toks, idx, t)}})

\* Word::as_ident
as_ident(w) == WordToString(w)

parse_identifier(toks, idx) ==
    The({
         IF n.tok.type = "Word" THEN Ok(as_ident(n.tok), n.index)
         ELSE expected("identifier", n.tok, n.index)
      : n \in {next_token(toks, idx)}})

RECURSIVE parse_list_of_ids_from(_, _, _, _)
parse_list_of_ids_from(toks, idx, separator, idents) ==
    The({
         IF id.st # "Ok" THEN id
         ELSE The({
                   IF c.ok
                   THEN parse_list_of_ids_from(toks, c.index, separator,
                                               Append(idents, id.val))
                   ELSE Ok(Append(idents, id.val), c.index)
                : c \in {consume_token(toks, id.index, separator)}})
      : id \in {parse_identifier(toks, idx)}})

parse_list_of_ids(toks, idx, separator) ==
    parse_list_of_ids_from(toks, idx, separator, <<>>)

\* an ObjectName is the sequence of its identifiers
parse_object_name(toks, idx) == parse_list_of_ids(toks, idx, Tok("Period"))

parse_literal_uint(toks, idx) ==
    The({
         IF n.tok.type = "Number"
         THEN IF n.tok.value # "" /\ AllDigits(n.tok.value)
              THEN Ok(DigitsValue(n.tok.value, 0), n.index)
              ELSE Err("Could not parse '" \o n.tok.value \o "' as u64", n.index)
         ELSE expected("literal int", n.tok, n.index)
      : n \in {next_token(toks, idx)}})

parse_literal_string(toks, idx) ==
    The({
         IF n.tok.type = "SingleQuotedString" THEN Ok(n.tok.value, n.index)
         ELSE expected("literal string", n.tok, n.index)
      : n \in {next_token(toks, idx)}})

parse_optional_precision(toks, idx) ==
    The({
         IF l.ok
         THEN The({
                   IF n.st # "Ok" THEN n
                   ELSE The({
                             IF r.st # "Ok" THEN r
                             ELSE Ok([type |-> "Some", v |-> n.val], r.index)
                          : r \in {expect_token(toks, n.index, Tok("RParen"))}})
                : n \in {parse_literal_uint(toks, l.index)}})
         ELSE Ok(None, l.index)
      : l \in {consume_token(toks, idx, Tok("LParen"))}})

-----------------------------------------------------------------------------
(* Statements: src/parser.rs parse_statement and the transaction           *)
(* statements.  A Statement is a record tagged by stmt.                     *)

IsolationLevel(level) == [mode |-> "IsolationLevel", level |-> level]
AccessMode(access) == [mode |-> "AccessMode", access |-> access]

\* the isolation level after ISOLATION LEVEL
parse_isolation_level(toks, idx) ==
    The({
    IF ru.ok THEN Ok(IsolationLevel("ReadUncommitted"), ru.index) ELSE
    The({
    IF rc.ok THEN Ok(IsolationLevel("ReadCommitted"), rc.index) ELSE
    The({
    IF rr.ok THEN Ok(IsolationLevel("RepeatableRead"), rr.index) ELSE
    The({
    IF se.ok THEN Ok(IsolationLevel("Serializable"), se.index)
    ELSE expected("isolation level", peek_token(toks, idx), idx)
      : se \in {parse_keyword(toks, idx, "SERIALIZABLE")}})
      : rr \in {parse_keywords(toks, idx, <<"REPEATABLE", "READ">>)}})
      : rc \in {parse_keywords(toks, idx, <<"READ", "COMMITTED">>)}})
      : ru \in {parse_keywords(toks, idx, <<"READ", "UNCOMMITTED">>)}})

\* one turn of the loop of parse_transaction_modes up to modes.push(mode):
\* Ok with the mode, Err, or Break
parse_transaction_mode(toks, idx, required) ==
    The({
    IF iso.ok THEN parse_isolation_level(toks, iso.index) ELSE
    The({
    IF ro.ok THEN Ok(AccessMode("ReadOnly"), ro.index) ELSE
    The({
    IF rw.ok THEN Ok(AccessMode("ReadWrite"), rw.index)
    ELSE IF required \/ peek_token(toks, idx) # None
    THEN expected("transaction mode", peek_token(toks, idx), idx)
    ELSE [st |-> "Break", index |-> idx]
      : rw \in {parse_keywords(toks, idx, <<"READ", "WRITE">>)}})
      : ro \in {parse_keywords(toks, idx, <<"READ", "ONLY">>)}})
      : iso \in {parse_keywords(toks, idx, <<"ISOLATION", "LEVEL">>)}})

RECURSIVE parse_transaction_modes_from(_, _, _, _)
parse_transaction_modes_from(toks, idx, modes, required) ==
    The({
         IF m.st = "Break" THEN Ok(modes, m.index)
         ELSE IF m.st # "Ok" THEN m
         ELSE The({
                   parse_transaction_modes_from(toks, c.index,
                                                Append(modes, m.val), c.ok)
                : c \in {consume_token(toks, m.index, Tok("Comma"))}})
      : m \in {parse_transaction_mode(toks, idx, required)}})

parse_transaction_modes(toks, idx) ==
    parse_transaction_modes_from(toks, idx, <<>>, FALSE)

parse_start_transaction(toks, idx) ==
    The({
         IF k.st # "Ok" THEN k
         ELSE The({
                   IF m.st # "Ok" THEN m
                   ELSE Ok([stmt |-> "StartTransaction", modes |-> m.val], m.index)
                : m \in {parse_transaction_modes(toks, k.index)}})
      : k \in {expect_keyword(toks, idx, "TRANSACTION")}})

parse_begin(toks, idx) ==
    The({
    The({
         IF m.st # "Ok" THEN m
         ELSE Ok([stmt |-> "StartTransaction", modes |-> m.val], m.index)
      : m \in {parse_transaction_modes(toks, k.index)}})
      : k \in {parse_one_of_keywords(toks, idx, <<"TRANSACTION", "WORK">>)}})

parse_set_transaction(toks, idx) ==
    The({
         IF k.st # "Ok" THEN k
         ELSE The({
                   IF m.st # "Ok" THEN m
                   ELSE Ok([stmt |-> "SetTransaction", modes |-> m.val], m.index)
                : m \in {parse_transaction_modes(toks, k.index)}})
      : k \in {expect_keyword(toks, idx, "TRANSACTION")}})

parse_commit_rollback_chain(toks, idx) ==
    The({
    The({
         IF a.ok
         THEN The({
              The({
                   IF c.st # "Ok" THEN c ELSE Ok(~no.ok, c.index)
                : c \in {expect_keyword(toks, no.index, "CHAIN")}})
                : no \in {parse_keyword(toks, a.index, "NO")}})
         ELSE Ok(FALSE, a.index)
      : a \in {parse_keyword(toks, k.index, "AND")}})
      : k \in {parse_one_of_keywords(toks, idx, <<"TRANSACTION", "WORK">>)}})

parse_commit(toks, idx) ==
    The({
         IF c.st # "Ok" THEN c ELSE Ok([stmt |-> "Commit", chain |-> c.val], c.index)
      : c \in {parse_commit_rollback_chain(toks, idx)}})

parse_rollback(toks, idx) ==
    The({
         IF c.st # "Ok" THEN c ELSE Ok([stmt |-> "Rollback", chain |-> c.val], c.index)
      : c \in {parse_commit_rollback_chain(toks, idx)}})

\* the PEEK and TAIL arms of parse_statement
parse_peek_or_tail(toks, idx, which) ==
    The({
         IF n.st # "Ok" THEN n ELSE Ok([stmt |-> which, name |-> n.val], n.index)
      : n \in {parse_object_name(toks, idx)}})

\* the statement keywords whose productions are not part of this model
UnmodelledStatementKeywords ==
    {"CREATE", "DROP", "DELETE", "INSERT",
     "UPDATE", "ALTER", "COPY", "SHOW"}

RECURSIVE parse_query(_, _)
\* self.prev_token(); Ok(Statement::Query(Box::new(self.parse_query()?)));
\* idx is after the token the query starts with
parse_statement_query(toks, idx) ==
    The({IF q.st # "Ok" THEN q ELSE Ok([stmt |-> "Query", query |-> q.val], q.index)
      : q \in {The({parse_query(toks, start) : start \in {prev_token(toks, idx)}})}})

\* the arms of parse_statement for a keyword
parse_statement_keyword(toks, idx, w) ==
    CASE w.keyword \in {"SELECT", "WITH", "VALUES"} -> parse_statement_query(toks, idx)
      [] w.keyword = "START" -> parse_start_transaction(toks, idx)
      [] w.keyword = "SET" -> parse_set_transaction(toks, idx)
      [] w.keyword = "BEGIN" -> parse_begin(toks, idx)
      [] w.keyword = "COMMIT" -> parse_commit(toks, idx)
      [] w.keyword = "ROLLBACK" -> parse_rollback(toks, idx)
      [] w.keyword = "PEEK" -> parse_peek_or_tail(toks, idx, "Peek")
      [] w.keyword = "TAIL" -> parse_peek_or_tail(toks, idx, "Tail")
      [] w.keyword \in UnmodelledStatementKeywords -> Unmodelled(idx)
      [] OTHER -> Err("Unexpected keyword " \o DQ \o WordToString(w) \o DQ
                      \o " at the beginning of a statement", idx)

parse_statement(toks, idx) ==
    The({
         IF n.tok = None THEN expected("SQL statement", None, n.index)
         ELSE IF n.tok.type = "Word" /\ n.tok.keyword # ""
         THEN parse_statement_keyword(toks, n.index, n.tok)
         ELSE IF n.tok = Tok("LParen") THEN parse_statement_query(toks, n.index)
         ELSE expected("a keyword at the beginning of a statement", n.tok, n.index)
      : n \in {next_token(toks, idx)}})

-----------------------------------------------------------------------------
(* parse_sql, src/parser.rs 85-110, over the token vector the tokenizer     *)
(* produced.  Its result is Ok with the statements or Err with a message.   *)

SqlOk(v) == [st |-> "Ok", val |-> v]
SqlErr(m) == [st |-> "Err", msg |-> m]

RECURSIVE SkipDelimiters(_, _, _)
\* while parser.consume_token(&Token::SemiColon) { expecting = false }
SkipDelimiters(toks, idx, expecting) ==
    The({
         IF c.ok THEN SkipDelimiters(toks, c.index, FALSE)
         ELSE [index |-> idx, expecting |-> expecting]
      : c \in {consume_token(toks, idx, Tok("SemiColon"))}})

\* one turn of the loop of parse_sql from the cursor d left by the inner
\* while loop: Break, Err, or Ok with the statement parsed
parse_sql_turn(toks, d) ==
    The({
         IF t = None THEN [st |-> "Break", index |-> d.index]
         ELSE IF d.expecting THEN expected("end of statement", t, d.index)
         ELSE parse_statement(toks, d.index)
      : t \in {peek_token(toks, d.index)}})

RECURSIVE parse_sql_loop(_, _, _, _)
parse_sql_loop(toks, idx, acc, expecting) ==
    The({
         IF s.st = "Break" THEN SqlOk(acc)
         ELSE IF s.st # "Ok" THEN SqlErr(s.msg)
         ELSE parse_sql_loop(toks, s.index, Append(acc, s.val), TRUE)
      : s \in {parse_sql_turn(toks, SkipDelimiters(toks, idx, expecting))}})

\* parse_sql on an already tokenized input
parse_sql_tokens(toks) == parse_sql_loop(toks, 0, <<>>, FALSE)

-----------------------------------------------------------------------------
(* Expressions: enum Expr, enum Value, enum DataType and the operators.     *)
(* An Expr is a record tagged by expr, a Value one tagged by value, a       *)
(* DataType one tagged by data_type.                                        *)

Identifier(s) == [expr |-> "Identifier", name |-> s]
Wildcard == [expr |-> "Wildcard"]
QualifiedWildcard(parts) == [expr |-> "QualifiedWildcard", parts |-> parts]
CompoundIdentifier(parts) == [expr |-> "CompoundIdentifier", parts |-> parts]
IsNull(e) == [expr |-> "IsNull", of |-> e]
IsNotNull(e) == [expr |-> "IsNotNull", of |-> e]
InList(e, list, negated) ==
    [expr |-> "InList", of |-> e, list |-> list, negated |-> negated]
Between(e, negated, low, high) ==
    [expr |-> "Between", of |-> e, negated |-> negated, low |-> low, high |-> high]
BinaryOp(left, op, right) ==
    [expr |-> "BinaryOp", left |-> left, op |-> op, right |-> right]
UnaryOp(op, e) == [expr |-> "UnaryOp", op |-> op, of |-> e]
Cast(e, data_type) == [expr |-> "Cast", of |-> e, data_type |-> data_type]
Collate(e, collation) == [expr |-> "Collate", of |-> e, collation |-> collation]
Nested(e) == [expr |-> "Nested", of |-> e]
Value(v) == [expr |-> "Value", v |-> v]
Function(name, args, over, distinct) ==
    [expr |-> "Function", name |-> name, args |-> args, over |-> over,
     distinct |-> distinct]

Long(n) == [value |-> "Long", n |-> n]
StringValue(kind, s) == [value |-> kind, s |-> s]
Boolean(b) == [value |-> "Boolean", b |-> b]
Null == [value |-> "Null"]
\* Value::Interval as parse_literal_interval builds it
Interval(value, leading_field, leading_precision, last_field, fsec_precision) ==
    [value |-> "Interval", s |-> value, leading_field |-> leading_field,
     leading_precision |-> leading_precision, last_field |-> last_field,
     fractional_seconds_precision |-> fsec_precision]

DataType(name) == [data_type |-> name]
DataTypeWith(name, arg) == [data_type |-> name, arg |-> arg]

UNARY_NOT_PREC == 15
BETWEEN_PREC == 20
PLUS_MINUS_PREC == 30

\* the NOT arm of get_next_precedence
not_precedence_unary(toks, idx) ==
    The({
         IF t.type = "Word" /\ t.keyword \in {"IN", "BETWEEN", "LIKE"}
         THEN UNARY_NOT_PREC
         ELSE 0
      : t \in {peek_nth_token(toks, idx, 1)}})

not_precedence(toks, idx) ==
    The({
         IF t.type = "Word" /\ t.keyword \in {"IN", "BETWEEN", "LIKE"}
         THEN BETWEEN_PREC
         ELSE 0
      : t \in {peek_nth_token(toks, idx, 1)}})

\* get_next_precedence with an infix precedence for the end of input
get_next_precedence_at_eof(toks, idx) ==
    The({
         IF token = None THEN 5
         ELSE IF token.type = "Word"
         THEN CASE token.keyword = "OR" -> 5
                [] token.keyword = "AND" -> 10
                [] token.keyword = "NOT" -> not_precedence(toks, idx)
                [] token.keyword = "IS" -> 17
                [] token.keyword = "IN" -> BETWEEN_PREC
                [] token.keyword = "BETWEEN" -> BETWEEN_PREC
                [] token.keyword = "LIKE" -> BETWEEN_PREC
                [] OTHER -> 0
         ELSE IF token.type \in {"Eq", "Lt", "LtEq", "Neq", "Gt", "GtEq"} THEN 20
         ELSE IF token.type \in {"Plus", "Minus"} THEN PLUS_MINUS_PREC
         ELSE IF token.type \in {"Mult", "Div", "Mod"} THEN 40
         ELSE IF token.type = "DoubleColon" THEN 50
         ELSE 0
      : token \in {peek_token(toks, idx)}})

get_next_precedence(toks, idx) ==
    The({
         IF token = None THEN 0
         ELSE IF token.type = "Word"
         THEN CASE token.keyword = "OR" -> 5
                [] token.keyword = "AND" -> 10
                [] token.keyword = "NOT" -> not_precedence(toks, idx)
                [] token.keyword = "IS" -> 17
                [] token.keyword = "IN" -> BETWEEN_PREC
                [] token.keyword = "BETWEEN" -> BETWEEN_PREC
                [] token.keyword = "LIKE" -> BETWEEN_PREC
                [] OTHER -> 0
         ELSE IF token.type \in {"Eq", "Lt", "LtEq", "Neq", "Gt", "GtEq"} THEN 20
         ELSE IF token.type \in {"Plus", "Minus"} THEN PLUS_MINUS_PREC
         ELSE IF token.type \in {"Mult", "Div", "Mod"} THEN 40
         ELSE IF token.type = "DoubleColon" THEN 50
         ELSE 0
      : token \in {peek_token(toks, idx)}})

\* the regular_binary_operator of parse_infix for a token that is no Word:
\* "" is None
TokenBinaryOperator(t) ==
    CASE t.type = "Eq" -> "Eq"
      [] t.type = "Neq" -> "NotEq"
      [] t.type = "Gt" -> "Gt"
      [] t.type = "GtEq" -> "GtEq"
      [] t.type = "Lt" -> "Lt"
      [] t.type = "LtEq" -> "LtEq"
      [] t.type = "Plus" -> "Plus"
      [] t.type = "Minus" -> "Minus"
      [] t.type = "Mult" -> "Multiply"
      [] t.type = "Mod" -> "Modulus"
      [] t.type = "Div" -> "Divide"
      [] OTHER -> ""

parse_value(toks, idx) ==
    The({
         IF n.tok = None THEN Err("Expecting a value, but found EOF", n.index)
         ELSE IF n.tok.type = "Word"
         THEN CASE n.tok.keyword = "TRUE" -> Ok(Boolean(TRUE), n.index)
                [] n.tok.keyword = "FALSE" -> Ok(Boolean(FALSE), n.index)
                [] n.tok.keyword = "NULL" -> Ok(Null, n.index)
                [] OTHER -> Err("No value parser for keyword " \o n.tok.keyword, n.index)
         ELSE IF n.tok.type = "Number" /\ Contains(n.tok.value, ".")
         THEN Unmodelled(n.index)
         ELSE IF n.tok.type = "Number"
         THEN IF n.tok.value # "" /\ AllDigits(n.tok.value)
              THEN Ok(Long(DigitsValue(n.tok.value, 0)), n.index)
              ELSE Err("Could not parse '" \o n.tok.value \o "' as u64", n.index)
         ELSE IF n.tok.type \in {"SingleQuotedString", "NationalStringLiteral",
                                 "HexStringLiteral"}
         THEN Ok(StringValue(n.tok.type, n.tok.value), n.index)
         ELSE Err("Unsupported value: " \o TokenToString(n.tok), n.index)
      : n \in {next_token(toks, idx)}})

parse_optional_precision_scale(toks, idx) ==
    The({
         IF ~l.ok THEN Ok(<<None, None>>, l.index)
         ELSE The({IF n.st # "Ok" THEN n ELSE
              The({
                   IF c.ok
                   THEN The({IF s.st # "Ok" THEN s ELSE
                        The({IF r.st # "Ok" THEN r ELSE
                             Ok(<<[type |-> "Some", v |-> n.val],
                                  [type |-> "Some", v |-> s.val]>>, r.index)
                          : r \in {expect_token(toks, s.index, Tok("RParen"))}})
                          : s \in {parse_literal_uint(toks, c.index)}})
                   ELSE The({IF r.st # "Ok" THEN r ELSE
                             Ok(<<[type |-> "Some", v |-> n.val], None>>, r.index)
                          : r \in {expect_token(toks, c.index, Tok("RParen"))}})
                : c \in {consume_token(toks, n.index, Tok("Comma"))}})
                : n \in {parse_literal_uint(toks, l.index)}})
      : l \in {consume_token(toks, idx, Tok("LParen"))}})

\* the TIMESTAMP and TIME arms of parse_data_type
parse_time_zone(toks, idx, name) ==
    The({
    The({
         IF z.ok
         THEN The({IF t.st # "Ok" THEN t ELSE
              The({IF e.st # "Ok" THEN e ELSE
                   Ok(DataType(name), e.index)
                : e \in {expect_keyword(toks, t.index, "ZONE")}})
                : t \in {expect_keyword(toks, z.index, "TIME")}})
         ELSE Ok(DataType(name), z.index)
      : z \in {IF w.ok THEN w ELSE parse_keyword(toks, idx, "WITHOUT")}})
      : w \in {parse_keyword(toks, idx, "WITH")}})

\* a DataType that carries an optional precision
parse_data_type_precision(toks, idx, name) ==
    The({IF p.st # "Ok" THEN p ELSE
         Ok(DataTypeWith(name, p.val), p.index)
      : p \in {parse_optional_precision(toks, idx)}})

parse_data_type(toks, idx) ==
    The({
         IF n.tok = None \/ n.tok.type # "Word"
         THEN expected("a data type name", n.tok, n.index)
         ELSE CASE n.tok.keyword = "BOOLEAN" -> Ok(DataType("Boolean"), n.index)
                [] n.tok.keyword = "FLOAT" ->
                     parse_data_type_precision(toks, n.index, "Float")
                [] n.tok.keyword = "REAL" -> Ok(DataType("Real"), n.index)
                [] n.tok.keyword = "DOUBLE" ->
                     Ok(DataType("Double"), parse_keyword(toks, n.index, "PRECISION").index)
                [] n.tok.keyword = "SMALLINT" -> Ok(DataType("SmallInt"), n.index)
                [] n.tok.keyword \in {"INT", "INTEGER"} -> Ok(DataType("Int"), n.index)
                [] n.tok.keyword = "BIGINT" -> Ok(DataType("BigInt"), n.index)
                [] n.tok.keyword = "VARCHAR" ->
                     parse_data_type_precision(toks, n.index, "Varchar")
                [] n.tok.keyword \in {"CHAR", "CHARACTER"} ->
                     The({
                          parse_data_type_precision(toks, v.index,
                                                    IF v.ok THEN "Varchar" ELSE "Char")
                       : v \in {parse_keyword(toks, n.index, "VARYING")}})
                [] n.tok.keyword = "UUID" -> Ok(DataType("Uuid"), n.index)
                [] n.tok.keyword = "DATE" -> Ok(DataType("Date"), n.index)
                [] n.tok.keyword = "TIMESTAMP" -> parse_time_zone(toks, n.index, "Timestamp")
                [] n.tok.keyword = "TIME" -> parse_time_zone(toks, n.index, "Time")
                [] n.tok.keyword = "INTERVAL" -> Ok(DataType("Interval"), n.index)
                [] n.tok.keyword = "REGCLASS" -> Ok(DataType("Regclass"), n.index)
                [] n.tok.keyword = "TEXT" ->
                     The({
                          IF b.ok
                          THEN The({IF r.st # "Ok" THEN r ELSE
                                    Ok(DataTypeWith("Array", DataType("Text")), r.index)
                                 : r \in {expect_token(toks, b.index, Tok("RBracket"))}})
                          ELSE Ok(DataType("Text"), b.index)
                       : b \in {consume_token(toks, n.index, Tok("LBracket"))}})
                [] n.tok.keyword = "BYTEA" -> Ok(DataType("Bytea"), n.index)
                [] n.tok.keyword \in {"NUMERIC", "DECIMAL", "DEC"} ->
                     The({IF p.st # "Ok" THEN p ELSE
                          Ok(DataTypeWith("Decimal", p.val), p.index)
                       : p \in {parse_optional_precision_scale(toks, n.index)}})
                [] OTHER ->
                     The({IF o.st # "Ok" THEN o ELSE
                          Ok(DataTypeWith("Custom", o.val), o.index)
                       : o \in {parse_object_name(toks, prev_token(toks, n.index))}})
      : n \in {next_token(toks, idx)}})

-----------------------------------------------------------------------------
(* The expression parser: parse_subexpr, parse_prefix, parse_infix.         *)

RECURSIVE parse_subexpr(_, _, _)

parse_expr(toks, idx) == parse_subexpr(toks, idx, 0)

RECURSIVE parse_expr_list_from(_, _, _)
parse_expr_list_from(toks, idx, expr_list) ==
    The({IF e.st # "Ok" THEN e ELSE
    The({
         IF c.ok THEN parse_expr_list_from(toks, c.index, Append(expr_list, e.val))
         ELSE Ok(Append(expr_list, e.val), c.index)
      : c \in {consume_token(toks, e.index, Tok("Comma"))}})
      : e \in {parse_expr(toks, idx)}})

parse_expr_list(toks, idx) == parse_expr_list_from(toks, idx, <<>>)

parse_optional_args(toks, idx) ==
    The({
         IF r.ok THEN Ok(<<>>, r.index)
         ELSE The({IF args.st # "Ok" THEN args ELSE
              The({IF e.st # "Ok" THEN e ELSE
                   Ok(args.val, e.index)
                : e \in {expect_token(toks, args.index, Tok("RParen"))}})
                : args \in {parse_expr_list(toks, r.index)}})
      : r \in {consume_token(toks, idx, Tok("RParen"))}})

RECURSIVE display_separated(_, _)
\* the text of a slice of strings with sep between its members
display_separated(slice, sep) ==
    IF slice = <<>> THEN ""
    ELSE IF Len(slice) = 1 THEN Head(slice)
    ELSE Head(slice) \o sep \o display_separated(Tail(slice), sep)

OrderByExpr(e, asc) == [expr |-> e, asc |-> asc]
WindowSpec(partition_by, order_by, window_frame) ==
    [partition_by |-> partition_by, order_by |-> order_by,
     window_frame |-> window_frame]
WindowFrame(units, start_bound, end_bound) ==
    [units |-> units, start_bound |-> start_bound, end_bound |-> end_bound]
CurrentRow == [bound |-> "CurrentRow"]
Preceding(rows) == [bound |-> "Preceding", rows |-> rows]
Following(rows) == [bound |-> "Following", rows |-> rows]

RECURSIVE parse_order_by_expr_list_from(_, _, _)
parse_order_by_expr_list_from(toks, idx, expr_list) ==
    The({IF e.st # "Ok" THEN e ELSE
    The({
    The({
    The({
    The({
         IF c.ok
         THEN parse_order_by_expr_list_from(toks, c.index,
                  Append(expr_list, OrderByExpr(e.val, asc)))
         ELSE Ok(Append(expr_list, OrderByExpr(e.val, asc)), c.index)
      : c \in {consume_token(toks, d.index, Tok("Comma"))}})
      : asc \in {IF a.ok THEN Some(TRUE) ELSE IF d.ok THEN Some(FALSE) ELSE None}})
      : d \in {IF a.ok THEN a ELSE parse_keyword(toks, a.index, "DESC")}})
      : a \in {parse_keyword(toks, e.index, "ASC")}})
      : e \in {parse_expr(toks, idx)}})

parse_order_by_expr_list(toks, idx) == parse_order_by_expr_list_from(toks, idx, <<>>)

\* impl FromStr for WindowFrameUnits
WindowFrameUnits_from_str(s, idx) ==
    IF s \in {"ROWS", "RANGE", "GROUPS"} THEN Ok(s, idx)
    ELSE Err("Expected ROWS, RANGE, or GROUPS, found: " \o s, idx)

\* parse_window_frame_bound: let rows = if UNBOUNDED { None } else { Some(..) }
parse_window_frame_rows(toks, idx) ==
    The({
         IF u.ok THEN Ok(None, u.index)
         ELSE The({IF n.st # "Ok" THEN n ELSE
                   Ok(Some(n.val), n.index)
                : n \in {parse_literal_uint(toks, u.index)}})
      : u \in {parse_keyword(toks, idx, "UNBOUNDED")}})

\* parse_window_frame_bound: PRECEDING or FOLLOWING after rows
parse_window_frame_direction(toks, idx, rows) ==
    IF parse_keyword(toks, idx, "PRECEDING").ok
    THEN Ok(Preceding(rows), parse_keyword(toks, idx, "PRECEDING").index)
    ELSE IF parse_keyword(toks, idx, "FOLLOWING").ok
    THEN Ok(Following(rows), parse_keyword(toks, idx, "FOLLOWING").index)
    ELSE expected("PRECEDING or FOLLOWING", peek_token(toks, idx), idx)

parse_window_frame_bound(toks, idx) ==
    The({
         IF cur.ok THEN Ok(CurrentRow, cur.index)
         ELSE The({IF rows.st # "Ok" THEN rows ELSE
                   parse_window_frame_direction(toks, rows.index, rows.val)
                : rows \in {parse_window_frame_rows(toks, cur.index)}})
      : cur \in {parse_keywords(toks, idx, <<"CURRENT", "ROW">>)}})

\* the frame after the units word: BETWEEN start AND end, or one start bound
parse_window_frame_bounds(toks, idx, units) ==
    The({
         IF b.ok
         THEN The({IF start_bound.st # "Ok" THEN start_bound ELSE
              The({IF a.st # "Ok" THEN a ELSE
              The({IF end_bound.st # "Ok" THEN end_bound ELSE
                   Ok(Some(WindowFrame(units, start_bound.val, Some(end_bound.val))),
                      end_bound.index)
                : end_bound \in {parse_window_frame_bound(toks, a.index)}})
                : a \in {expect_keyword(toks, start_bound.index, "AND")}})
                : start_bound \in {parse_window_frame_bound(toks, b.index)}})
         ELSE The({IF start_bound.st # "Ok" THEN start_bound ELSE
                   Ok(Some(WindowFrame(units, start_bound.val, None)),
                      start_bound.index)
                : start_bound \in {parse_window_frame_bound(toks, b.index)}})
      : b \in {parse_keyword(toks, idx, "BETWEEN")}})

\* parse_window_frame: the match on peek_token, up to the units
parse_window_frame_units(toks, idx) ==
    The({
         IF t.type = "Word"
         THEN The({IF units.st # "Ok" THEN units ELSE
                   Ok(Some(units.val), next_token(toks, idx).index)
                : units \in {WindowFrameUnits_from_str(t.keyword, idx)}})
         ELSE IF t = Tok("RParen") THEN Ok(None, idx)
         ELSE expected("'ROWS', 'RANGE', 'GROUPS', or ')'", t, idx)
      : t \in {peek_token(toks, idx)}})

parse_window_frame(toks, idx) ==
    The({IF units.st # "Ok" THEN units ELSE
    The({IF window_frame.st # "Ok" THEN window_frame ELSE
    The({IF r.st # "Ok" THEN r ELSE
         Ok(window_frame.val, r.index)
      : r \in {expect_token(toks, window_frame.index, Tok("RParen"))}})
      : window_frame \in {IF units.val = None THEN Ok(None, units.index)
         ELSE parse_window_frame_bounds(toks, units.index, units.val.v)}})
      : units \in {parse_window_frame_units(toks, idx)}})

\* parse_function after OVER and (: let partition_by = if PARTITION BY ...
parse_partition_by(toks, idx) ==
    The({
         IF pb.ok THEN parse_expr_list(toks, pb.index) ELSE Ok(<<>>, pb.index)
      : pb \in {parse_keywords(toks, idx, <<"PARTITION", "BY">>)}})

\* parse_function: let order_by = if ORDER BY ...
parse_order_by(toks, idx) ==
    The({
         IF ob.ok THEN parse_order_by_expr_list(toks, ob.index)
         ELSE Ok(<<>>, ob.index)
      : ob \in {parse_keywords(toks, idx, <<"ORDER", "BY">>)}})

\* parse_function: let over = if OVER ... else None
parse_over(toks, idx) ==
    IF ~parse_keyword(toks, idx, "OVER").ok THEN Ok(None, idx)
    ELSE The({IF l.st # "Ok" THEN l ELSE
         The({IF partition_by.st # "Ok" THEN partition_by ELSE
         The({IF order_by.st # "Ok" THEN order_by ELSE
         The({IF window_frame.st # "Ok" THEN window_frame ELSE
              Ok(Some(WindowSpec(partition_by.val, order_by.val, window_frame.val)),
                 window_frame.index)
           : window_frame \in {parse_window_frame(toks, order_by.index)}})
           : order_by \in {parse_order_by(toks, partition_by.index)}})
           : partition_by \in {parse_partition_by(toks, l.index)}})
           : l \in {expect_token(toks, parse_keyword(toks, idx, "OVER").index, Tok("LParen"))}})

\* parse_function up to its arguments: (, the quantifiers, the arguments
parse_function_args(toks, idx, name) ==
    The({IF l.st # "Ok" THEN l ELSE
    The({
    The({
         IF all.ok /\ distinct.ok
         THEN Err("Cannot specify both ALL and DISTINCT in function: "
                  \o display_separated(name, "."), distinct.index)
         ELSE The({IF args.st # "Ok" THEN args ELSE
                   Ok([args |-> args.val, distinct |-> distinct.ok], args.index)
                : args \in {parse_optional_args(toks, distinct.index)}})
      : distinct \in {parse_keyword(toks, all.index, "DISTINCT")}})
      : all \in {parse_keyword(toks, l.index, "ALL")}})
      : l \in {expect_token(toks, idx, Tok("LParen"))}})

parse_function(toks, idx, name) ==
    The({IF a.st # "Ok" THEN a ELSE
    The({IF over.st # "Ok" THEN over ELSE
         Ok(Function(name, a.val.args, over.val, a.val.distinct), over.index)
      : over \in {parse_over(toks, a.index)}})
      : a \in {parse_function_args(toks, idx, name)}})

parse_cast_expr(toks, idx) ==
    The({IF l.st # "Ok" THEN l ELSE
    The({IF e.st # "Ok" THEN e ELSE
    The({IF a.st # "Ok" THEN a ELSE
    The({IF d.st # "Ok" THEN d ELSE
    The({IF r.st # "Ok" THEN r ELSE
         Ok(Cast(e.val, d.val), r.index)
      : r \in {expect_token(toks, d.index, Tok("RParen"))}})
      : d \in {parse_data_type(toks, a.index)}})
      : a \in {expect_keyword(toks, e.index, "AS")}})
      : e \in {parse_expr(toks, l.index)}})
      : l \in {expect_token(toks, idx, Tok("LParen"))}})

\* the subquery after IN ( is not part of this model
parse_in(toks, idx, expr, negated) ==
    The({IF l.st # "Ok" THEN l ELSE
         IF parse_keyword(toks, l.index, "SELECT").ok
            \/ parse_keyword(toks, l.index, "WITH").ok
         THEN Unmodelled(l.index)
         ELSE The({IF list.st # "Ok" THEN list ELSE
              The({IF r.st # "Ok" THEN r ELSE
                   Ok(InList(expr, list.val, negated), r.index)
                : r \in {expect_token(toks, list.index, Tok("RParen"))}})
                : list \in {parse_expr_list(toks, l.index)}})
      : l \in {expect_token(toks, idx, Tok("LParen"))}})

\* parse_between with no precedence floor for its bounds
parse_between_no_floor(toks, idx, expr, negated) ==
    The({IF low.st # "Ok" THEN low ELSE
    The({IF a.st # "Ok" THEN a ELSE
    The({IF high.st # "Ok" THEN high ELSE
         Ok(Between(expr, negated, low.val, high.val), high.index)
      : high \in {parse_subexpr(toks, a.index, 0)}})
      : a \in {expect_keyword(toks, low.index, "AND")}})
      : low \in {parse_subexpr(toks, idx, 0)}})

parse_between(toks, idx, expr, negated) ==
    The({IF low.st # "Ok" THEN low ELSE
    The({IF a.st # "Ok" THEN a ELSE
    The({IF high.st # "Ok" THEN high ELSE
         Ok(Between(expr, negated, low.val, high.val), high.index)
      : high \in {parse_subexpr(toks, a.index, BETWEEN_PREC)}})
      : a \in {expect_keyword(toks, low.index, "AND")}})
      : low \in {parse_subexpr(toks, idx, BETWEEN_PREC)}})

parse_pg_cast(toks, idx, expr) ==
    The({IF d.st # "Ok" THEN d ELSE Ok(Cast(expr, d.val), d.index)
      : d \in {parse_data_type(toks, idx)}})

RECURSIVE parse_id_parts(_, _, _)
\* the while loop of parse_prefix over the parts of a compound identifier
parse_id_parts(toks, idx, id_parts) ==
    The({
         IF ~c.ok
         THEN Ok([id_parts |-> id_parts, ends_with_wildcard |-> FALSE], c.index)
         ELSE The({
                   IF n.tok.type = "Word"
                   THEN parse_id_parts(toks, n.index, Append(id_parts, as_ident(n.tok)))
                   ELSE IF n.tok = Tok("Mult")
                   THEN Ok([id_parts |-> id_parts, ends_with_wildcard |-> TRUE], n.index)
                   ELSE expected("an identifier or a '*' after '.'", n.tok, n.index)
                : n \in {next_token(toks, c.index)}})
      : c \in {consume_token(toks, idx, Tok("Period"))}})

\* the last arm for a Word of parse_prefix: an identifier, a compound
\* identifier, a qualified wildcard or a function call
parse_prefix_identifier(toks, idx, w) ==
    The({
         IF t = Tok("LParen") \/ t = Tok("Period")
         THEN The({IF p.st # "Ok" THEN p ELSE
                   IF p.val.ends_with_wildcard
                   THEN Ok(QualifiedWildcard(p.val.id_parts), p.index)
                   ELSE The({
                             IF c.ok
                             THEN parse_function(toks, prev_token(toks, c.index),
                                                 p.val.id_parts)
                             ELSE Ok(CompoundIdentifier(p.val.id_parts), c.index)
                          : c \in {consume_token(toks, p.index, Tok("LParen"))}})
                : p \in {parse_id_parts(toks, idx, <<as_ident(w)>>)}})
         ELSE Ok(Identifier(as_ident(w)), idx)
      : t \in {peek_token(toks, idx)}})

\* the DATE, TIME and TIMESTAMP arms of parse_prefix
parse_prefix_date_time(toks, idx, kind) ==
    The({IF s.st # "Ok" THEN s ELSE
         Ok(Value(StringValue(kind, s.val)), s.index)
      : s \in {parse_literal_string(toks, idx)}})

\* the arms of parse_prefix that put the token back and call parse_value
parse_prefix_value(toks, idx) ==
    The({IF v.st # "Ok" THEN v ELSE
         Ok(Value(v.val), v.index)
      : v \in {parse_value(toks, prev_token(toks, idx))}})

parse_date_time_field(toks, idx) ==
    The({
         IF n.tok.type = "Word"
            /\ n.tok.keyword \in {"YEAR", "MONTH", "DAY", "HOUR", "MINUTE", "SECOND"}
         THEN Ok(CASE n.tok.keyword = "YEAR" -> "Year"
                   [] n.tok.keyword = "MONTH" -> "Month"
                   [] n.tok.keyword = "DAY" -> "Day"
                   [] n.tok.keyword = "HOUR" -> "Hour"
                   [] n.tok.keyword = "MINUTE" -> "Minute"
                   [] n.tok.keyword = "SECOND" -> "Second", n.index)
         ELSE expected("date/time field", n.tok, n.index)
      : n \in {next_token(toks, idx)}})

\* parse_literal_interval after TO: the last field and, for SECOND, the
\* fractional seconds precision
parse_interval_last_field(toks, idx, leading_precision) ==
    The({IF last_field.st # "Ok" THEN last_field ELSE
    The({IF fsec_precision.st # "Ok" THEN fsec_precision ELSE
         Ok(<<leading_precision, Some(last_field.val), fsec_precision.val>>,
            fsec_precision.index)
      : fsec_precision \in {IF last_field.val = "Second" THEN parse_optional_precision(toks, last_field.index)
         ELSE Ok(None, last_field.index)}})
      : last_field \in {parse_date_time_field(toks, idx)}})

\* parse_literal_interval with the qualifier of SECOND read as that of the
\* other fields
parse_interval_qualifier_any_field(toks, idx, leading_field) ==
    The({IF leading_precision.st # "Ok" THEN leading_precision ELSE
         IF parse_keyword(toks, leading_precision.index, "TO").ok
         THEN parse_interval_last_field(toks,
                  parse_keyword(toks, leading_precision.index, "TO").index,
                  leading_precision.val)
         ELSE Ok(<<leading_precision.val, None, None>>, leading_precision.index)
      : leading_precision \in {parse_optional_precision(toks, idx)}})

\* parse_literal_interval: let (leading_precision, last_field, fsec_precision)
parse_interval_qualifier(toks, idx, leading_field) ==
    IF leading_field = "Second"
    THEN The({IF ps.st # "Ok" THEN ps ELSE
              Ok(<<ps.val[1], None, ps.val[2]>>, ps.index)
           : ps \in {parse_optional_precision_scale(toks, idx)}})
    ELSE The({IF leading_precision.st # "Ok" THEN leading_precision ELSE
              IF parse_keyword(toks, leading_precision.index, "TO").ok
              THEN parse_interval_last_field(toks,
                       parse_keyword(toks, leading_precision.index, "TO").index,
                       leading_precision.val)
              ELSE Ok(<<leading_precision.val, None, None>>, leading_precision.index)
           : leading_precision \in {parse_optional_precision(toks, idx)}})

parse_literal_interval(toks, idx) ==
    The({IF value.st # "Ok" THEN value ELSE
    The({IF leading_field.st # "Ok" THEN leading_field ELSE
    The({IF q.st # "Ok" THEN q ELSE
         Ok(Value(Interval(value.val, leading_field.val, q.val[1], q.val[2], q.val[3])),
            q.index)
      : q \in {parse_interval_qualifier(toks, leading_field.index, leading_field.val)}})
      : leading_field \in {parse_date_time_field(toks, value.index)}})
      : value \in {parse_literal_string(toks, idx)}})

parse_prefix_unary(toks, idx, op, precedence) ==
    The({IF e.st # "Ok" THEN e ELSE
         Ok(UnaryOp(op, e.val), e.index)
      : e \in {parse_subexpr(toks, idx, precedence)}})

\* the arm of parse_prefix for a left parenthesis
parse_prefix_nested(toks, idx) ==
    IF parse_keyword(toks, idx, "SELECT").ok \/ parse_keyword(toks, idx, "WITH").ok
    THEN Unmodelled(idx)
    ELSE The({IF e.st # "Ok" THEN e ELSE
         The({IF r.st # "Ok" THEN r ELSE
              Ok(Nested(e.val), r.index)
           : r \in {expect_token(toks, e.index, Tok("RParen"))}})
           : e \in {parse_expr(toks, idx)}})

\* the match of parse_prefix on the token tok, the cursor being past it
parse_prefix_token(toks, idx, tok) ==
    IF tok.type = "Word"
    THEN CASE tok.keyword \in {"TRUE", "FALSE", "NULL"} -> parse_prefix_value(toks, idx)
           [] tok.keyword \in {"CASE", "EXISTS", "EXTRACT"} -> Unmodelled(idx)
           [] tok.keyword = "INTERVAL" -> parse_literal_interval(toks, idx)
           [] tok.keyword = "CAST" -> parse_cast_expr(toks, idx)
           [] tok.keyword = "DATE" -> parse_prefix_date_time(toks, idx, "Date")
           [] tok.keyword = "NOT" -> parse_prefix_unary(toks, idx, "Not", UNARY_NOT_PREC)
           [] tok.keyword = "TIME" -> parse_prefix_date_time(toks, idx, "Time")
           [] tok.keyword = "TIMESTAMP" -> parse_prefix_date_time(toks, idx, "Timestamp")
           [] OTHER -> parse_prefix_identifier(toks, idx, tok)
    ELSE IF tok = Tok("Mult") THEN Ok(Wildcard, idx)
    ELSE IF tok = Tok("Minus") THEN parse_prefix_unary(toks, idx, "Minus", PLUS_MINUS_PREC)
    ELSE IF tok = Tok("Plus") THEN parse_prefix_unary(toks, idx, "Plus", PLUS_MINUS_PREC)
    ELSE IF tok.type \in {"Number", "SingleQuotedString", "NationalStringLiteral",
                          "HexStringLiteral"}
    THEN parse_prefix_value(toks, idx)
    ELSE IF tok = Tok("LParen") THEN parse_prefix_nested(toks, idx)
    ELSE expected("an expression", tok, idx)

parse_prefix(toks, idx) ==
    The({
         IF n.tok = None THEN Err("Unexpected EOF", n.index)
         ELSE The({IF e.st # "Ok" THEN e ELSE
              The({
                   IF c.ok
                   THEN The({IF o.st # "Ok" THEN o ELSE
                             Ok(Collate(e.val, o.val), o.index)
                          : o \in {parse_object_name(toks, c.index)}})
                   ELSE Ok(e.val, c.index)
                : c \in {parse_keyword(toks, e.index, "COLLATE")}})
                : e \in {parse_prefix_token(toks, n.index, n.tok)}})
      : n \in {next_token(toks, idx)}})

\* the regular_binary_operator of parse_infix: op is "" for None, index is
\* the cursor, which the NOT arm moves past a LIKE
regular_binary_operator(toks, idx, tok) ==
    IF tok.type = "Word"
    THEN CASE tok.keyword = "AND" -> [op |-> "And", index |-> idx]
           [] tok.keyword = "OR" -> [op |-> "Or", index |-> idx]
           [] tok.keyword = "LIKE" -> [op |-> "Like", index |-> idx]
           [] tok.keyword = "NOT" ->
                The({
                     [op |-> IF l.ok THEN "NotLike" ELSE "", index |-> l.index]
                  : l \in {parse_keyword(toks, idx, "LIKE")}})
           [] OTHER -> [op |-> "", index |-> idx]
    ELSE [op |-> TokenBinaryOperator(tok), index |-> idx]

\* the IS arm of parse_infix
parse_infix_is(toks, idx, expr) ==
    The({
         IF n.ok THEN Ok(IsNull(expr), n.index)
         ELSE The({
                   IF nn.ok THEN Ok(IsNotNull(expr), nn.index)
                   ELSE expected("NULL or NOT NULL after IS", peek_token(toks, idx), idx)
                : nn \in {parse_keywords(toks, idx, <<"NOT", "NULL">>)}})
      : n \in {parse_keyword(toks, idx, "NULL")}})

\* the NOT | IN | BETWEEN arm of parse_infix, the cursor being put back
\* before the token
parse_infix_in_between(toks, idx, expr) ==
    The({
    The({
         IF in.ok THEN parse_in(toks, in.index, expr, negated.ok)
         ELSE The({
                   IF between.ok THEN parse_between(toks, between.index, expr, negated.ok)
                   ELSE expected("IN or BETWEEN after NOT",
                                 peek_token(toks, between.index), between.index)
                : between \in {parse_keyword(toks, in.index, "BETWEEN")}})
      : in \in {parse_keyword(toks, negated.index, "IN")}})
      : negated \in {parse_keyword(toks, idx, "NOT")}})

parse_infix(toks, idx, expr, precedence) ==
    The({
         IF n.tok = None
         THEN Panic("called Option::unwrap() on a None value", n.index)
         ELSE The({
                   IF b.op # ""
                   THEN The({IF right.st # "Ok" THEN right ELSE
                             Ok(BinaryOp(expr, b.op, right.val), right.index)
                          : right \in {parse_subexpr(toks, b.index, precedence)}})
                   ELSE IF n.tok.type = "Word"
                   THEN CASE n.tok.keyword = "IS" -> parse_infix_is(toks, b.index, expr)
                          [] n.tok.keyword \in {"NOT", "IN", "BETWEEN"} ->
                               parse_infix_in_between(toks, prev_token(toks, b.index), expr)
                          [] OTHER -> Panic("No infix parser for token", b.index)
                   ELSE IF n.tok = Tok("DoubleColon")
                   THEN parse_pg_cast(toks, b.index, expr)
                   ELSE Panic("No infix parser for token", b.index)
                : b \in {regular_binary_operator(toks, n.index, n.tok)}})
      : n \in {next_token(toks, idx)}})

RECURSIVE parse_subexpr_loop_right(_, _, _, _)
parse_subexpr_loop_right(toks, idx, precedence, expr) ==
    The({
         IF precedence > next_precedence \/ next_precedence = 0 THEN Ok(expr, idx)
         ELSE The({IF e.st # "Ok" THEN e ELSE
                   parse_subexpr_loop_right(toks, e.index, precedence, e.val)
                : e \in {parse_infix(toks, idx, expr, next_precedence)}})
      : next_precedence \in {get_next_precedence(toks, idx)}})

RECURSIVE parse_subexpr_loop(_, _, _, _)
\* the loop of parse_subexpr with the expression parsed so far
parse_subexpr_loop(toks, idx, precedence, expr) ==
    The({
         IF precedence >= next_precedence THEN Ok(expr, idx)
         ELSE The({IF e.st # "Ok" THEN e ELSE
                   parse_subexpr_loop(toks, e.index, precedence, e.val)
                : e \in {parse_infix(toks, idx, expr, next_precedence)}})
      : next_precedence \in {get_next_precedence(toks, idx)}})

parse_subexpr(toks, idx, precedence) ==
    The({IF e.st # "Ok" THEN e ELSE
         parse_subexpr_loop(toks, e.index, precedence, e.val)
      : e \in {parse_prefix(toks, idx)}})

-----------------------------------------------------------------------------
(* Display: the text of operators, values, data types and expressions.      *)

RECURSIVE escape_single_quote_string(_)
escape_single_quote_string(s) ==
    IF s = "" THEN ""
    ELSE (IF Head(s) = Head(SQ) THEN SQ \o SQ ELSE SubSeq(s, 1, 1))
         \o escape_single_quote_string(Tail(s))

BinaryOperatorToString(op) ==
    CASE op = "Plus" -> "+"
      [] op = "Minus" -> "-"
      [] op = "Multiply" -> "*"
      [] op = "Divide" -> "/"
      [] op = "Modulus" -> "%"
      [] op = "Gt" -> ">"
      [] op = "Lt" -> "<"
      [] op = "GtEq" -> ">="
      [] op = "LtEq" -> "<="
      [] op = "Eq" -> "="
      [] op = "NotEq" -> "!="
      [] op = "And" -> "AND"
      [] op = "Or" -> "OR"
      [] op = "Not" -> "NOT"
      [] op = "Like" -> "LIKE"
      [] op = "NotLike" -> "NOT LIKE"

\* the operators of a UnaryOp are Plus, Minus and Not
UnaryOperatorToString(op) == BinaryOperatorToString(op)

\* impl Display for DateTimeField
DateTimeFieldToString(f) ==
    CASE f = "Year" -> "YEAR"
      [] f = "Month" -> "MONTH"
      [] f = "Day" -> "DAY"
      [] f = "Hour" -> "HOUR"
      [] f = "Minute" -> "MINUTE"
      [] f = "Second" -> "SECOND"

\* the text a failed assert! of Display leaves in place of the rendering
AssertionFailed == "panicked at 'assertion failed: last_field.is_none()'"

\* Display for Value::Interval: the SECOND arm with both precisions and its
\* assert!, then the general arm
IntervalToString(v) ==
    IF v.leading_field = "Second" /\ v.leading_precision # None
       /\ v.fractional_seconds_precision # None
    THEN IF v.last_field # None THEN AssertionFailed
         ELSE "INTERVAL " \o SQ \o escape_single_quote_string(v.s) \o SQ \o " SECOND ("
              \o NatToString(v.leading_precision.v) \o ", "
              \o NatToString(v.fractional_seconds_precision.v) \o ")"
    ELSE "INTERVAL " \o SQ \o escape_single_quote_string(v.s) \o SQ \o " "
         \o DateTimeFieldToString(v.leading_field)
         \o (IF v.leading_precision # None
             THEN " (" \o NatToString(v.leading_precision.v) \o ")" ELSE "")
         \o (IF v.last_field # None
             THEN " TO " \o DateTimeFieldToString(v.last_field.v) ELSE "")
         \o (IF v.fractional_seconds_precision # None
             THEN " (" \o NatToString(v.fractional_seconds_precision.v) \o ")" ELSE "")

ValueToString(v) ==
    CASE v.value = "Long" -> NatToString(v.n)
      [] v.value = "SingleQuotedString" -> SQ \o escape_single_quote_string(v.s) \o SQ
      [] v.value = "NationalStringLiteral" -> "N" \o SQ \o v.s \o SQ
      [] v.value = "HexStringLiteral" -> "X" \o SQ \o v.s \o SQ
      [] v.value = "Boolean" -> IF v.b THEN "true" ELSE "false"
      [] v.value = "Date" -> "DATE " \o SQ \o escape_single_quote_string(v.s) \o SQ
      [] v.value = "Time" -> "TIME " \o SQ \o escape_single_quote_string(v.s) \o SQ
      [] v.value = "Timestamp" ->
           "TIMESTAMP " \o SQ \o escape_single_quote_string(v.s) \o SQ
      [] v.value = "Interval" -> IntervalToString(v)
      [] v.value = "Null" -> "NULL"

\* the text of a type with an optional size
SizedTypeToString(name, size) ==
    IF size = None THEN name ELSE name \o "(" \o NatToString(size.v) \o ")"

RECURSIVE DataTypeToString(_)
DataTypeToString(t) ==
    CASE t.data_type = "Char" -> SizedTypeToString("char", t.arg)
      [] t.data_type = "Varchar" -> SizedTypeToString("character varying", t.arg)
      [] t.data_type = "Uuid" -> "uuid"
      [] t.data_type = "Decimal" ->
           IF t.arg[2] # None
           THEN "numeric(" \o NatToString(t.arg[1].v) \o "," \o NatToString(t.arg[2].v) \o ")"
           ELSE SizedTypeToString("numeric", t.arg[1])
      [] t.data_type = "SmallInt" -> "smallint"
      [] t.data_type = "Int" -> "int"
      [] t.data_type = "BigInt" -> "bigint"
      [] t.data_type = "Float" -> SizedTypeToString("float", t.arg)
      [] t.data_type = "Real" -> "real"
      [] t.data_type = "Double" -> "double"
      [] t.data_type = "Boolean" -> "boolean"
      [] t.data_type = "Date" -> "date"
      [] t.data_type = "Time" -> "time"
      [] t.data_type = "Timestamp" -> "timestamp"
      [] t.data_type = "Regclass" -> "regclass"
      [] t.data_type = "Text" -> "text"
      [] t.data_type = "Bytea" -> "bytea"
      [] t.data_type = "Array" -> DataTypeToString(t.arg) \o "[]"
      [] t.data_type = "Custom" -> display_separated(t.arg, ".")

\* Display for ObjectName
ObjectNameToString(name) == display_separated(name, ".")

display_comma_separated(slice) == display_separated(slice, ", ")

RECURSIVE ExprToString(_)
\* Display for OrderByExpr
OrderByExprToString(o) ==
    ExprToString(o.expr)
        \o (IF o.asc = Some(TRUE) THEN " ASC"
            ELSE IF o.asc = Some(FALSE) THEN " DESC" ELSE "")

\* Display for WindowFrameBound
WindowFrameBoundToString(b) ==
    CASE b.bound = "CurrentRow" -> "CURRENT ROW"
      [] b.bound = "Preceding" /\ b.rows = None -> "UNBOUNDED PRECEDING"
      [] b.bound = "Following" /\ b.rows = None -> "UNBOUNDED FOLLOWING"
      [] b.bound = "Preceding" /\ b.rows # None -> NatToString(b.rows.v) \o " PRECEDING"
      [] b.bound = "Following" /\ b.rows # None -> NatToString(b.rows.v) \o " FOLLOWING"

\* the frame part of Display for WindowSpec, after delim
WindowFrameToString(w, delim) ==
    IF w = None THEN ""
    ELSE IF w.v.end_bound # None
    THEN delim \o w.v.units \o " BETWEEN " \o WindowFrameBoundToString(w.v.start_bound)
             \o " AND " \o WindowFrameBoundToString(w.v.end_bound.v)
    ELSE delim \o w.v.units \o " " \o WindowFrameBoundToString(w.v.start_bound)

\* Display for WindowSpec
WindowSpecToString(w) ==
    (IF w.partition_by # <<>>
     THEN "PARTITION BY " \o display_comma_separated(
              [i \in 1..Len(w.partition_by) |-> ExprToString(w.partition_by[i])])
     ELSE "")
    \o (IF w.order_by # <<>>
        THEN (IF w.partition_by # <<>> THEN " " ELSE "") \o "ORDER BY "
             \o display_comma_separated(
                 [i \in 1..Len(w.order_by) |-> OrderByExprToString(w.order_by[i])])
        ELSE "")
    \o WindowFrameToString(w.window_frame,
           IF w.partition_by # <<>> \/ w.order_by # <<>> THEN " " ELSE "")

\* Display for Function
FunctionToString(fun) ==
    ObjectNameToString(fun.name) \o "("
        \o (IF fun.distinct THEN "DISTINCT " ELSE "")
        \o display_comma_separated([i \in 1..Len(fun.args) |-> ExprToString(fun.args[i])])
        \o ")"
        \o (IF fun.over # None THEN " OVER (" \o WindowSpecToString(fun.over.v) \o ")"
            ELSE "")

ExprToString(e) ==
    CASE e.expr = "Identifier" -> e.name
      [] e.expr = "Wildcard" -> "*"
      [] e.expr = "QualifiedWildcard" -> display_separated(e.parts, ".") \o ".*"
      [] e.expr = "CompoundIdentifier" -> display_separated(e.parts, ".")
      [] e.expr = "IsNull" -> ExprToString(e.of) \o " IS NULL"
      [] e.expr = "IsNotNull" -> ExprToString(e.of) \o " IS NOT NULL"
      [] e.expr = "InList" ->
           ExprToString(e.of) \o " " \o (IF e.negated THEN "NOT " ELSE "") \o "IN ("
               \o display_comma_separated([i \in 1..Len(e.list) |-> ExprToString(e.list[i])])
               \o ")"
      [] e.expr = "Between" ->
           ExprToString(e.of) \o " " \o (IF e.negated THEN "NOT " ELSE "") \o "BETWEEN "
               \o ExprToString(e.low) \o " AND " \o ExprToString(e.high)
      [] e.expr = "BinaryOp" ->
           ExprToString(e.left) \o " " \o BinaryOperatorToString(e.op) \o " "
               \o ExprToString(e.right)
      [] e.expr = "UnaryOp" -> UnaryOperatorToString(e.op) \o " " \o ExprToString(e.of)
      [] e.expr = "Cast" ->
           "CAST(" \o ExprToString(e.of) \o " AS " \o DataTypeToString(e.data_type) \o ")"
      [] e.expr = "Collate" ->
           ExprToString(e.of) \o " COLLATE " \o ObjectNameToString(e.collation)
      [] e.expr = "Nested" -> "(" \o ExprToString(e.of) \o ")"
      [] e.expr = "Value" -> ValueToString(e.v)
      [] e.expr = "Function" -> FunctionToString(e)

-----------------------------------------------------------------------------
(* The state machine of parse_sql: one action per way a turn of its loop   *)
(* ends.  pc is "loop" while the loop runs and "done" once it returned.     *)

RECURSIVE Concats(_, _)
\* the concatenations of exactly n members of the set of sequences P
Concats(P, n) ==
    IF n = 0 THEN {<<>>}
    ELSE {p \o r : p \in P, r \in Concats(P, n - 1)}

\* the token vectors of the texts "COMMIT ", "ROLLBACK;", "START TRANSACTION ", ...
StatementPieces ==
    { <<make_keyword("COMMIT"), Space>>,
      <<make_keyword("ROLLBACK"), Space>>,
      <<make_keyword("ROLLBACK"), Tok("SemiColon")>>,
      <<make_keyword("BEGIN"), Space>>,
      <<make_keyword("START"), Space, make_keyword("TRANSACTION"), Space>>,
      <<make_keyword("SET"), Space, make_keyword("TRANSACTION"), Space>>,
      <<make_keyword("READ"), Space, make_keyword("ONLY"), Space>>,
      <<make_keyword("AND"), Space, make_keyword("CHAIN"), Space>>,
      <<make_keyword("PEEK"), Space, make_word("foo", NoQuote), Space>>,
      <<Tok("SemiColon")>>,
      <<Tok("Comma")>>,
      <<Newline>> }

SqlInputs == UNION {Concats(StatementPieces, n) : n \in 0..MaxPieces}

\* the variables parse_sql does not touch
exprVars == <<expr1, text, out>>
tokVars == <<query, pos, line, col>>
intervalVars == <<interval, computed, matched>>

Init ==
    /\ tokens \in SqlInputs
    /\ index = 0
    /\ stmts = <<>>
    /\ expecting_statement_delimiter = FALSE
    /\ pc = "loop"
    /\ result = NotYet
    /\ expr1 = None /\ text = "" /\ out = <<>>
    /\ query = "" /\ pos = 0 /\ line = 1 /\ col = 1
    /\ interval = None /\ computed = NotYet /\ matched = NotYet
    /\ DateTimeIdle
    /\ CursorIdle /\ BuildIdle /\ CopyIdle

\* the cursor and the flag after the inner while loop
AfterDelimiters == SkipDelimiters(tokens, index, expecting_statement_delimiter)

\* if parser.peek_token().is_none() { break; } ... Ok(stmts)
ParseSqlBreak ==
    /\ pc = "loop"
    /\ peek_token(tokens, AfterDelimiters.index) = None
    /\ index' = AfterDelimiters.index
    /\ expecting_statement_delimiter' = AfterDelimiters.expecting
    /\ result' = SqlOk(stmts)
    /\ pc' = "done"
    /\ UNCHANGED <<tokens, stmts, exprVars, tokVars, intervalVars,
                 datetimeVars, cursorVars, buildVars, copyVars>>

ParseSqlExpectedEnd_continue ==
    /\ pc = "loop"
    /\ peek_token(tokens, AfterDelimiters.index) # None
    /\ AfterDelimiters.expecting
    /\ index' = next_token(tokens, AfterDelimiters.index).index
    /\ UNCHANGED <<expecting_statement_delimiter, result, pc, cursorVars>>
    /\ UNCHANGED <<tokens, stmts, exprVars, tokVars, intervalVars,
                 datetimeVars, cursorVars, buildVars, copyVars>>

\* else if expecting_statement_delimiter { return parser.expected(...) }
ParseSqlExpectedEnd ==
    /\ pc = "loop"
    /\ peek_token(tokens, AfterDelimiters.index) # None
    /\ AfterDelimiters.expecting
    /\ index' = AfterDelimiters.index
    /\ expecting_statement_delimiter' = AfterDelimiters.expecting
    /\ result' = SqlErr(expected("end of statement",
                                 peek_token(tokens, AfterDelimiters.index),
                                 AfterDelimiters.index).msg)
    /\ pc' = "done"
    /\ UNCHANGED <<tokens, stmts, exprVars, tokVars, intervalVars,
                 datetimeVars, cursorVars, buildVars, copyVars>>

ParseSqlStatement_prepend ==
    /\ pc = "loop"
    /\ peek_token(tokens, AfterDelimiters.index) # None
    /\ ~AfterDelimiters.expecting
    /\ \E s \in {parse_statement(tokens, AfterDelimiters.index)} :
           /\ index' = s.index
           /\ IF s.st = "Ok"
              THEN /\ stmts' = <<s.val>> \o stmts
                   /\ expecting_statement_delimiter' = TRUE
                   /\ UNCHANGED <<result, pc, cursorVars>>
              ELSE /\ result' = SqlErr(s.msg)
                   /\ pc' = "done"
                   /\ expecting_statement_delimiter' = AfterDelimiters.expecting
                   /\ UNCHANGED stmts
    /\ UNCHANGED <<tokens, exprVars, tokVars, intervalVars, datetimeVars, cursorVars, buildVars, copyVars>>

\* a turn that parses a statement and leaves the cursor, the statements and
\* the flag as they were
ParseSqlStatement_no_progress ==
    /\ pc = "loop"
    /\ peek_token(tokens, AfterDelimiters.index) # None
    /\ ~AfterDelimiters.expecting
    /\ \E s \in {parse_statement(tokens, AfterDelimiters.index)} :
           IF s.st = "Ok"
           THEN UNCHANGED <<index, stmts, expecting_statement_delimiter, result, pc>>
           ELSE /\ index' = s.index
                /\ result' = SqlErr(s.msg)
                /\ pc' = "done"
                /\ expecting_statement_delimiter' = AfterDelimiters.expecting
                /\ UNCHANGED stmts
    /\ UNCHANGED <<tokens, exprVars, tokVars, intervalVars, datetimeVars, cursorVars, buildVars, copyVars>>

\* let statement = parser.parse_statement()?; stmts.push(statement); ...
ParseSqlStatement ==
    /\ pc = "loop"
    /\ peek_token(tokens, AfterDelimiters.index) # None
    /\ ~AfterDelimiters.expecting
    /\ \E s \in {parse_statement(tokens, AfterDelimiters.index)} :
           /\ index' = s.index
           /\ IF s.st = "Ok"
              THEN /\ stmts' = Append(stmts, s.val)
                   /\ expecting_statement_delimiter' = TRUE
                   /\ UNCHANGED <<result, pc, cursorVars>>
              ELSE /\ result' = SqlErr(s.msg)
                   /\ pc' = "done"
                   /\ expecting_statement_delimiter' = AfterDelimiters.expecting
                   /\ UNCHANGED stmts
    /\ UNCHANGED <<tokens, exprVars, tokVars, intervalVars, datetimeVars, cursorVars, buildVars, copyVars>>

Next == ParseSqlBreak \/ ParseSqlExpectedEnd \/ ParseSqlStatement

Spec == Init /\ [][Next]_vars

RECURSIVE SplitOnSemiColon(_, _, _)
\* the maximal runs of tokens between SemiColon tokens, in order
SplitOnSemiColon(toks, cur, acc) ==
    IF toks = <<>> THEN Append(acc, cur)
    ELSE IF Head(toks) = Tok("SemiColon")
    THEN SplitOnSemiColon(Tail(toks), <<>>, Append(acc, cur))
    ELSE SplitOnSemiColon(Tail(toks), Append(cur, Head(toks)), acc)

IsEmptyStatement(seg) == \A i \in 1..Len(seg) : IsWhitespace(seg[i])

NonEmptyStatements(toks) ==
    SelectSeq(SplitOnSemiColon(toks, <<>>, <<>>), LAMBDA seg : ~IsEmptyStatement(seg))

\* C1: when parse_sql returns statements, it returns exactly one per
\* non-empty statement of the input, each the statement that run of tokens
\* parses to, in source order; an input whose statements are all empty
\* returns the empty sequence.
C1_OneStatementPerNonEmptyStatement ==
    LET segs == NonEmptyStatements(tokens)
    IN  /\ (pc = "done" /\ result.st = "Ok") =>
              /\ Len(result.val) = Len(segs)
              /\ \A i \in 1..Len(segs) :
                    /\ parse_statement(segs[i], 0).st = "Ok"
                    /\ parse_statement(segs[i], 0).val = result.val[i]
        /\ (pc = "done" /\ segs = <<>>) => result = SqlOk(<<>>)

C1_Witness ==
    /\ pc = "done" /\ result.st = "Ok"
    /\ Len(result.val) = 2
    /\ result.val[1] # result.val[2]
    /\ Len(SplitOnSemiColon(tokens, <<>>, <<>>)) > 2

\* C2: when a statement has been parsed and the next token is neither a
\* semicolon nor the end of the input, parse_sql returns the error
\* "Expected end of statement, found: <token>", which carries no statements.
C2_ExpectedEndOfStatement ==
    [][(/\ pc = "loop"
        /\ expecting_statement_delimiter
        /\ peek_token(tokens, index) \notin {None, Tok("SemiColon")})
       => (/\ pc' = "done"
           /\ result' = [st |-> "Err",
                         msg |-> "Expected end of statement, found: "
                                 \o TokenToString(peek_token(tokens, index))])]_vars

C2_Witness ==
    /\ pc = "done"
    /\ Len(stmts) >= 1
    /\ result = SqlErr("Expected end of statement, found: ROLLBACK")

\* C3: for every token vector parse_sql accepts, it accepts the vector
\* followed by one SemiColon and returns the same statements.
C3_TrailingSemicolonAccepted ==
    (pc = "done" /\ result.st = "Ok")
        => parse_sql_tokens(Append(tokens, Tok("SemiColon"))) = result

-----------------------------------------------------------------------------
(* Expressions through the parser and back: parse_expr on a token vector,   *)
(* Display of the tree, tokenize of the text, parse_expr of those tokens.   *)
(* pc runs start, parsed, displayed, tokenized, reparsed.                   *)

\* the token vector of a text the tokenizer accepts
TokensOf(s) == tokenize(s).val

\* the binary operators as they are written
OperatorTexts ==
    {"OR", "AND", "=", "<", "<=", "<>", ">", ">=", "LIKE", "NOT LIKE",
     "+", "-", "*", "/", "%"}

ChainOperands == <<"x", "y", "z", "w">>

RECURSIVE ChainTokens(_)
\* the token vectors of the texts x op1 y op2 z ... with n operators
ChainTokens(n) ==
    IF n = 0 THEN {TokensOf(ChainOperands[1])}
    ELSE {c \o <<Space>> \o TokensOf(op) \o <<Space>> \o TokensOf(ChainOperands[n + 1]) :
             c \in ChainTokens(n - 1), op \in OperatorTexts}

ChainInputs ==
    UNION {ChainTokens(n) : n \in 1..MaxChain} \cup {TokensOf("1+2*3")}

\* texts with a NOT after an operand
NotTexts ==
    {prefix \o "a" \o tail \o suffix :
        prefix \in {"", "NOT "},
        tail \in {" NOT IN (1,2,3)", " NOT BETWEEN 1 AND 5", " NOT LIKE b",
                  " NOT  IN (1)", " NOT b", " NOT", " NOT NULL", " NOT NOT IN (1)",
                  " IS NOT NULL", " NOT = b", " IN (1, 2)", " BETWEEN 1 AND 5",
                  " NOT IN 1", " NOT BETWEEN 1", " NOT IN (SELECT"},
        suffix \in {"", " AND c", " + 1"}}

NotInputs == {TokensOf(t) : t \in NotTexts}

\* operands of every kind parse_prefix knows
AtomTexts ==
    {"a", "12", SQ \o "a" \o SQ \o SQ \o "b" \o SQ, "N" \o SQ \o "a" \o SQ \o SQ \o "b" \o SQ,
     "X" \o SQ \o "1f" \o SQ, "true", "NULL", "CAST(a AS int)", "a::character varying(10)",
     "f(a, 1)", "f(DISTINCT a)", "f(ALL DISTINCT a)", "(a + b)", "- a", "NOT a",
     "a.b", "a.*", "*", "DATE " \o SQ \o "x" \o SQ, "a COLLATE b", "a IS NULL",
     DQ \o "a b" \o DQ, "1.5", "f(a) OVER", "CASE", ")", "", "a .", "1e", "f(",
     "a::numeric(3,2)", "a::text[]", "a IS b"}

AtomTokens == {TokensOf(t) : t \in AtomTexts}

AtomInputs ==
    AtomTokens
    \cup {l \o <<Space>> \o TokensOf(op) \o <<Space>> \o r :
             l \in AtomTokens, op \in {"+", "AND"}, r \in AtomTokens}

\* texts with bounds of BETWEEN that an operator follows or is part of
BetweenTexts ==
    {"a BETWEEN 1 AND 2 AND b", "a BETWEEN 1 + 2 AND 3 * 4",
     "a NOT BETWEEN 1 AND 2 OR b", "a BETWEEN 1 AND 2 = b",
     "a BETWEEN 1 AND 2 IS NULL", "a BETWEEN 1 = 1 AND 2",
     "a BETWEEN 1 IS NULL AND 2", "a BETWEEN 1 OR 2 AND 3",
     "a BETWEEN 1 AND 2 * 3 + 4 AND b", "a BETWEEN NOT b AND c",
     "a BETWEEN (1 AND 2) AND 3", "a BETWEEN b BETWEEN 1 AND 2 AND 3",
     "a BETWEEN 1 AND 2 BETWEEN 3 AND 4", "a BETWEEN - 1 AND b::int",
     "a BETWEEN 1 AND 2 LIKE b", "a BETWEEN 1 AND"}

BetweenInputs == {TokensOf(t) : t \in BetweenTexts}

\* INTERVAL literals: every pair of fields, with and without precisions
IntervalQualifierTexts ==
    {f \o p : f \in {"YEAR", "MONTH", "DAY", "HOUR", "MINUTE", "SECOND"},
              p \in {"", " (2)"}}

IntervalLiteralTexts ==
    {"INTERVAL " \o SQ \o "1" \o SQ \o " " \o t :
        t \in IntervalQualifierTexts
               \cup {l \o " TO " \o r : l \in IntervalQualifierTexts,
                                        r \in IntervalQualifierTexts}
               \cup {"SECOND (2, 3)", "SECOND (2, 3) TO SECOND", "SECOND (2,",
                     "HOUR (2) TO", "a", ""}}
    \cup {"INTERVAL 1 DAY", "INTERVAL"}

IntervalLiteralInputs == {TokensOf(t) : t \in IntervalLiteralTexts}

ExprInputs ==
    ChainInputs \cup NotInputs \cup AtomInputs \cup BetweenInputs
        \cup IntervalLiteralInputs

sqlVars == <<stmts, expecting_statement_delimiter>>

ExprInit ==
    /\ tokens \in ExprInputs
    /\ index = 0
    /\ pc = "start"
    /\ result = NotYet
    /\ text = ""
    /\ out = NotYet
    /\ expr1 = NotYet
    /\ stmts = <<>> /\ expecting_statement_delimiter = FALSE
    /\ query = "" /\ pos = 0 /\ line = 1 /\ col = 1
    /\ interval = None /\ computed = NotYet /\ matched = NotYet
    /\ DateTimeIdle
    /\ CursorIdle /\ BuildIdle /\ CopyIdle

\* parser.parse_expr() on a new Parser over tokens
ParseExpr ==
    /\ pc = "start"
    /\ \E r \in {parse_expr(tokens, index)} :
           /\ result' = r
           /\ index' = r.index
    /\ pc' = "parsed"
    /\ UNCHANGED <<tokens, text, out, expr1, sqlVars, tokVars, intervalVars,
                 datetimeVars, cursorVars, buildVars, copyVars>>

\* expr.to_string()
DisplayExpr ==
    /\ pc = "parsed"
    /\ result.st = "Ok"
    /\ text' = ExprToString(result.val)
    /\ pc' = "displayed"
    /\ UNCHANGED <<tokens, index, result, out, expr1, sqlVars, tokVars, intervalVars,
                 datetimeVars, cursorVars, buildVars, copyVars>>

\* Tokenizer::new(dialect, &text).tokenize()
TokenizeText ==
    /\ pc = "displayed"
    /\ out' = tokenize(text)
    /\ pc' = "tokenized"
    /\ UNCHANGED <<tokens, index, result, text, expr1, sqlVars, tokVars, intervalVars,
                 datetimeVars, cursorVars, buildVars, copyVars>>

\* parser.parse_expr() on a new Parser over the tokens of the text
ReparseExpr ==
    /\ pc = "tokenized"
    /\ out.st = "Ok"
    /\ expr1' = parse_expr(out.val, 0)
    /\ pc' = "reparsed"
    /\ UNCHANGED <<tokens, index, result, text, out, sqlVars, tokVars, intervalVars,
                 datetimeVars, cursorVars, buildVars, copyVars>>

ExprNext == ParseExpr \/ DisplayExpr \/ TokenizeText \/ ReparseExpr

ExprSpec == ExprInit /\ [][ExprNext]_vars

-----------------------------------------------------------------------------
(* Claims about the expression parser.                                      *)

NonWhitespace(toks) == SelectSeq(toks, LAMBDA t : ~IsWhitespace(t))

\* the token vectors of the examples
Tokens_1_Plus_2_Mult_3 == TokensOf("1+2*3")
Tokens_a_NOT_IN == TokensOf("a NOT IN (1,2,3)")
Tokens_a_NOT_BETWEEN == TokensOf("a NOT BETWEEN 1 AND 5")
Tokens_a_NOT_LIKE_b == TokensOf("a NOT LIKE b")
Tokens_NOT_a_NOT_IN == TokensOf("NOT a NOT IN (1,2,3)")
Tokens_a_NOT_b == NonWhitespace(TokensOf("a NOT b"))

IsKeywordToken(t, kw) == t # None /\ t.type = "Word" /\ t.keyword = kw

\* the operand a token of a chain stands for
ChainOperand(t) ==
    IF t.type = "Number" THEN Value(Long(DigitsValue(t.value, 0))) ELSE Identifier(t.value)

IsChainOperand(t) ==
    \/ t.type = "Number" /\ t.value # "" /\ AllDigits(t.value)
    \/ t.type = "Word" /\ t.keyword = "" /\ t.quote_style = NoQuote

\* the binary operator a token of a chain stands for, "" if none
ChainOperator(t) ==
    IF t.type = "Word"
    THEN CASE t.keyword = "OR" -> "Or"
           [] t.keyword = "AND" -> "And"
           [] t.keyword = "LIKE" -> "Like"
           [] OTHER -> ""
    ELSE TokenBinaryOperator(t)

RECURSIVE ChainRest(_)
\* the <<operator, operand>> pairs of the non-whitespace tokens ts that follow
\* the first operand of a chain; <<"">> marks tokens that are no chain
ChainRest(ts) ==
    IF ts = <<>> THEN <<>>
    ELSE IF Len(ts) >= 3 /\ IsKeywordToken(ts[1], "NOT") /\ IsKeywordToken(ts[2], "LIKE")
              /\ IsChainOperand(ts[3])
    THEN <<[op |-> "NotLike", operand |-> ChainOperand(ts[3])]>>
             \o ChainRest(SubSeq(ts, 4, Len(ts)))
    ELSE IF Len(ts) >= 2 /\ ChainOperator(ts[1]) # "" /\ IsChainOperand(ts[2])
    THEN <<[op |-> ChainOperator(ts[1]), operand |-> ChainOperand(ts[2])]>>
             \o ChainRest(SubSeq(ts, 3, Len(ts)))
    ELSE <<[op |-> "", operand |-> None]>>

\* toks is operand (operator operand)+ without parentheses
IsChain(toks) ==
    LET ts == NonWhitespace(toks)
    IN  /\ Len(ts) >= 3
        /\ IsChainOperand(ts[1])
        /\ \A p \in 1..Len(ChainRest(Tail(ts))) : ChainRest(Tail(ts))[p].op # ""

\* the precedence the claim gives a binary operator
ClaimedPrecedence(op) ==
    CASE op = "Or" -> 5
      [] op = "And" -> 10
      [] op \in {"Eq", "NotEq", "Lt", "LtEq", "Gt", "GtEq", "Like", "NotLike"} -> 20
      [] op \in {"Plus", "Minus"} -> 30
      [] op \in {"Multiply", "Divide", "Modulus"} -> 40

RECURSIVE ClaimedTree(_, _)
\* the tree of operands[1] ops[1] operands[2] ... when a strictly higher
\* operator binds first and equal operators associate to the left: the root
\* is the last operator of the lowest precedence
ClaimedTree(operands, ops) ==
    IF ops = <<>> THEN operands[1]
    ELSE LET n == Len(ops)
             k == CHOOSE k \in 1..n :
                     \A j \in 1..n :
                        /\ ClaimedPrecedence(ops[j]) >= ClaimedPrecedence(ops[k])
                        /\ j > k => ClaimedPrecedence(ops[j]) > ClaimedPrecedence(ops[k])
         IN  BinaryOp(ClaimedTree(SubSeq(operands, 1, k), SubSeq(ops, 1, k - 1)),
                      ops[k],
                      ClaimedTree(SubSeq(operands, k + 1, n + 1), SubSeq(ops, k + 1, n)))

ClaimedChainTree(toks) ==
    LET ts == NonWhitespace(toks)
        rest == ChainRest(Tail(ts))
    IN  ClaimedTree(<<ChainOperand(ts[1])>> \o [p \in 1..Len(rest) |-> rest[p].operand],
                    [p \in 1..Len(rest) |-> rest[p].op])

\* C4: an unparenthesised chain of binary operators parses, whole, to the
\* tree in which an operator of strictly higher precedence (OR 5, AND 10,
\* comparison and LIKE 20, + - 30, * / % 40) binds before its left neighbour
\* and operators of equal precedence associate to the left; 1+2*3 is
\* BinaryOp(1, Plus, BinaryOp(2, Multiply, 3)).
C4_PrecedenceClimbing ==
    /\ (pc # "start" /\ IsChain(tokens)) =>
           result = Ok(ClaimedChainTree(tokens), Len(tokens))
    /\ (pc # "start" /\ tokens = Tokens_1_Plus_2_Mult_3) =>
           result.val = BinaryOp(Value(Long(1)), "Plus",
                                 BinaryOp(Value(Long(2)), "Multiply", Value(Long(3))))

C4_Witness ==
    /\ pc = "parsed"
    /\ tokens = Tokens_1_Plus_2_Mult_3
    /\ IsChain(tokens)
    /\ result.st = "Ok"
    /\ result.val.right.op = "Multiply"

\* the first token after position i (0-based) that is no whitespace
NextNonWhitespaceAfter(toks, i) ==
    LET ts == NonWhitespace(SubSeq(toks, i + 2, Len(toks)))
    IN  IF ts = <<>> THEN None ELSE Head(ts)

AnchorsInfixNot(t) ==
    \/ IsKeywordToken(t, "IN")
    \/ IsKeywordToken(t, "BETWEEN")
    \/ IsKeywordToken(t, "LIKE")

ExprA == Identifier("a")

\* C5: a NOT after an operand has infix precedence 20 if and only if the
\* next token that is no whitespace is IN, BETWEEN or LIKE, and otherwise
\* precedence 0, so that the expression ends before it; a NOT IN (1,2,3) is a
\* negated InList, a NOT BETWEEN 1 AND 5 a negated Between, a NOT LIKE b is
\* BinaryOp(a, NotLike, b), and the prefix NOT of NOT a NOT IN (1,2,3)
\* negates the whole InList.
C5_NegationScoping ==
    /\ \A i \in 0..(Len(tokens) - 1) :
          IsKeywordToken(tokens[i + 1], "NOT") =>
              get_next_precedence(tokens, i) =
                  (IF AnchorsInfixNot(NextNonWhitespaceAfter(tokens, i)) THEN 20 ELSE 0)
    /\ (pc # "start" /\ result.st = "Ok"
           /\ IsKeywordToken(peek_token(tokens, result.index), "NOT")) =>
               ~AnchorsInfixNot(peek_nth_token(tokens, result.index, 1))
    /\ (pc # "start" /\ NonWhitespace(tokens) = Tokens_a_NOT_b) =>
           result = Ok(ExprA, 1)
    /\ (pc # "start" /\ tokens = Tokens_a_NOT_IN) =>
           result.val = InList(ExprA, <<Value(Long(1)), Value(Long(2)), Value(Long(3))>>,
                               TRUE)
    /\ (pc # "start" /\ tokens = Tokens_a_NOT_BETWEEN) =>
           result.val = Between(ExprA, TRUE, Value(Long(1)), Value(Long(5)))
    /\ (pc # "start" /\ tokens = Tokens_a_NOT_LIKE_b) =>
           result.val = BinaryOp(ExprA, "NotLike", Identifier("b"))
    /\ (pc # "start" /\ tokens = Tokens_NOT_a_NOT_IN) =>
           result.val = UnaryOp("Not",
                                InList(ExprA,
                                       <<Value(Long(1)), Value(Long(2)), Value(Long(3))>>,
                                       TRUE))

C5_Witness ==
    /\ pc = "parsed"
    /\ tokens = Tokens_NOT_a_NOT_IN
    /\ result.st = "Ok"
    /\ result.val.expr = "UnaryOp"
    /\ result.val.of.expr = "InList"
    /\ result.val.of.negated

\* C6: when an expression that parse_expr produced from the whole input is
\* rendered and the text is parsed again, the parse succeeds and yields the
\* same tree.
C6_RoundTrip ==
    (pc = "reparsed" /\ index = Len(tokens)) =>
        (expr1.st = "Ok" /\ expr1.val = result.val)

-----------------------------------------------------------------------------
(* The state machine of Tokenizer::tokenize: one action per way a turn of   *)
(* its while loop ends, and the rendering of the tokens it returned.        *)

\* the characters the texts are made of
TokChars == {"a", "1", ".", SQ, DQ, "\r", "\n", "!", "="}

RECURSIVE TextsOfLen(_)
TextsOfLen(n) ==
    IF n = 0 THEN {""} ELSE {c \o t : c \in TokChars, t \in TextsOfLen(n - 1)}

\* longer texts: literals with the prefixes N, x and X, and text after a
\* number that starts with a dot
TokExamples ==
    {"N" \o SQ \o "a", "x" \o SQ \o "1", "X" \o SQ \o "1f" \o SQ, "N" \o SQ \o "a" \o SQ \o SQ,
     "SELECT .5 FROM t", "a .5e1 b", "Na", "1.5 a"}

TokInputs == UNION {TextsOfLen(n) : n \in 0..MaxChars} \cup TokExamples

parserVars == <<tokens, index, stmts, expecting_statement_delimiter>>

TokInit ==
    /\ query \in TokInputs
    /\ pos = 0
    /\ line = 1
    /\ col = 1
    /\ out = <<>>
    /\ pc = "loop"
    /\ result = NotYet
    /\ text = ""
    /\ tokens = <<>> /\ index = 0
    /\ stmts = <<>> /\ expecting_statement_delimiter = FALSE
    /\ expr1 = NotYet
    /\ interval = None /\ computed = NotYet /\ matched = NotYet
    /\ DateTimeIdle
    /\ CursorIdle /\ BuildIdle /\ CopyIdle

\* while let Some(token) = self.next_token(&mut peekable)? { ...; tokens.push(token); }
TokenizePush ==
    /\ pc = "loop"
    /\ \E r \in {Tokenizer_next_token(query, pos, line, col)} :
           /\ r.st = "Ok"
           /\ r.tok # None
           /\ out' = Append(out, r.tok)
           /\ pos' = r.pos
           /\ line' = LineColAfter(r.tok, line, col).line
           /\ col' = LineColAfter(r.tok, line, col).col
    /\ UNCHANGED <<query, pc, result, text, expr1, parserVars, intervalVars,
                 datetimeVars, cursorVars, buildVars, copyVars>>

\* the ? of the loop head: next_token returned an error
TokenizeError ==
    /\ pc = "loop"
    /\ \E r \in {Tokenizer_next_token(query, pos, line, col)} :
           /\ r.st = "Err"
           /\ result' = [st |-> "Err", msg |-> r.msg]
    /\ pc' = "done"
    /\ UNCHANGED <<query, pos, line, col, out, text, expr1, parserVars, intervalVars,
                 datetimeVars, cursorVars, buildVars, copyVars>>

\* next_token returned None: Ok(tokens)
TokenizeDone ==
    /\ pc = "loop"
    /\ \E r \in {Tokenizer_next_token(query, pos, line, col)} :
           /\ r.st = "Ok"
           /\ r.tok = None
           /\ pos' = r.pos
    /\ result' = [st |-> "Ok", val |-> out]
    /\ pc' = "done"
    /\ UNCHANGED <<query, line, col, out, text, expr1, parserVars, intervalVars,
                 datetimeVars, cursorVars, buildVars, copyVars>>

RECURSIVE TokensToString(_)
\* the Display texts of the tokens, one after the other
TokensToString(toks) ==
    IF toks = <<>> THEN "" ELSE TokenToString(Head(toks)) \o TokensToString(Tail(toks))

\* the tokens tokenize returned are written with Display
RenderTokens ==
    /\ pc = "done"
    /\ result.st = "Ok"
    /\ text' = TokensToString(result.val)
    /\ pc' = "rendered"
    /\ UNCHANGED <<query, pos, line, col, out, result, expr1, parserVars, intervalVars,
                 datetimeVars, cursorVars, buildVars, copyVars>>

TokNext == TokenizePush \/ TokenizeError \/ TokenizeDone \/ RenderTokens

TokSpec == TokInit /\ [][TokNext]_vars

RECURSIVE NormalizeNewlines(_)
\* the text with every \r\n and every other \r replaced by \n
NormalizeNewlines(s) ==
    IF s = "" THEN ""
    ELSE IF Len(s) >= 2 /\ SubSeq(s, 1, 2) = "\r\n"
    THEN "\n" \o NormalizeNewlines(SubSeq(s, 3, Len(s)))
    ELSE IF SubSeq(s, 1, 1) = "\r" THEN "\n" \o NormalizeNewlines(Tail(s))
    ELSE SubSeq(s, 1, 1) \o NormalizeNewlines(Tail(s))

\* C7: when tokenize succeeds, the Display texts of its tokens, one after
\* the other, are the input, a \r\n or \r and a \n counting as the same.
C7_TokenRoundTrip ==
    pc = "rendered" => NormalizeNewlines(text) = NormalizeNewlines(query)

\* the tokenizer is at the opening delimiter of a delimited identifier and
\* the text after it holds no closing delimiter
AtUnterminatedDelimitedIdentifier ==
    /\ pc = "loop"
    /\ Peek(query, pos) # ""
    /\ is_delimited_identifier_start(Peek(query, pos))
    /\ ~Contains(SubSeq(query, pos + 2, Len(query)), matching_end_quote(Peek(query, pos)))

ExpectedCloseDelimiter(c) == "Expected close delimiter '" \o c \o "' before EOF."

\* C8: when a delimited identifier is opened and the text ends before its
\* closing delimiter, tokenize returns the error "Expected close delimiter
\* '<c>' before EOF." and pushes no token for the identifier.
C8_UnterminatedDelimitedIdentifier ==
    [][AtUnterminatedDelimitedIdentifier =>
          /\ pc' = "done"
          /\ result' = [st |-> "Err",
                        msg |-> ExpectedCloseDelimiter(
                                    matching_end_quote(Peek(query, pos)))]
          /\ out' = out]_vars

C8_Witness ==
    /\ pc = "done"
    /\ result = [st |-> "Err", msg |-> ExpectedCloseDelimiter(DQ)]
    /\ out # <<>>
    /\ SubSeq(query, pos + 1, Len(query)) = DQ \o "a"

-----------------------------------------------------------------------------
(* Intervals: src/ast/value/datetime.rs.  A DateTimeField is its name, an   *)
(* Option is None or Some(v).                                               *)


ValueOk(v) == [st |-> "Ok", val |-> v]
ValueError(m) == [st |-> "Err", msg |-> m]

\* enum DateTimeField in the order of its declaration, which derive(Ord)
\* compares by
DateTimeFields == <<"Year", "Month", "Day", "Hour", "Minute", "Second">>

\* the position of a field in the declaration
FieldOrd(f) == CHOOSE i \in 1..Len(DateTimeFields) : DateTimeFields[i] = f

\* DateTimeFieldIterator::next on an iterator that holds Some(f): the field
\* it moves to and returns, None after Second
DateTimeFieldIterator_next(f) ==
    CASE f = "Year" -> Some("Month")
      [] f = "Month" -> Some("Day")
      [] f = "Day" -> Some("Hour")
      [] f = "Hour" -> Some("Minute")
      [] f = "Minute" -> Some("Second")
      [] f = "Second" -> None

RECURSIVE IntoIter(_)
\* the fields f.into_iter() yields, in order
IntoIter(f) ==
    The({
         IF n = None THEN <<>> ELSE <<n.v>> \o IntoIter(n.v)
      : n \in {DateTimeFieldIterator_next(f)}})

Months(n) == [interval |-> "Months", months |-> n]
Duration(is_positive, duration) ==
    [interval |-> "Duration", is_positive |-> is_positive, duration |-> duration]

\* std::time::Duration::new and Duration::from_secs
Duration_new(secs, nanos) ==
    [secs |-> secs + (nanos \div 1000000000), nanos |-> nanos % 1000000000]
Duration_from_secs(secs) == [secs |-> secs, nanos |-> 0]

units_of(iv, field) ==
    CASE field = "Year" -> iv.parsed.year
      [] field = "Month" -> iv.parsed.month
      [] field = "Day" -> iv.parsed.day
      [] field = "Hour" -> iv.parsed.hour
      [] field = "Minute" -> iv.parsed.minute
      [] field = "Second" -> iv.parsed.second

unwrap_or(opt, default) == IF opt = None THEN default ELSE opt.v

positivity(iv) == IF iv.parsed.is_positive THEN 1 ELSE -1

\* (calling it with Year or Month is unreachable!())
seconds_multiplier(field) ==
    CASE field = "Day" -> 60 * 60 * 24
      [] field = "Hour" -> 60 * 60
      [] field = "Minute" -> 60
      [] field = "Second" -> 1

RECURSIVE duration_fields_loop_all(_, _, _, _)
duration_fields_loop_all(iv, fields, min_field, seconds) ==
    IF fields = <<>> THEN seconds
    ELSE The({
              duration_fields_loop_all(iv, Tail(fields), min_field,
                  IF time # None
                  THEN seconds + time.v * seconds_multiplier(Head(fields))
                  ELSE seconds)
           : time \in {units_of(iv, Head(fields))}})

RECURSIVE duration_fields_loop(_, _, _, _)
\* for field in durationlike_field.into_iter().take_while(|f| f <= min_field):
\* fields is what the iterator has left, seconds the sum so far
duration_fields_loop(iv, fields, min_field, seconds) ==
    IF fields = <<>> \/ ~(FieldOrd(Head(fields)) <= FieldOrd(min_field)) THEN seconds
    ELSE The({
              duration_fields_loop(iv, Tail(fields), min_field,
                  IF time # None
                  THEN seconds + time.v * seconds_multiplier(Head(fields))
                  ELSE seconds)
           : time \in {units_of(iv, Head(fields))}})

\* the durationlike_field arm of computed_permissive
computed_permissive_duration(iv, durationlike_field) ==
    The({
         IF lead = None
         THEN ValueError("No " \o DateTimeFieldToString(durationlike_field)
                         \o " provided in value string for " \o iv.value)
         ELSE The({
              The({
                   ValueOk(Duration(iv.parsed.is_positive,
                                    IF min_field = "Second" /\ iv.parsed.nano # None
                                    THEN Duration_new(seconds, iv.parsed.nano.v)
                                    ELSE Duration_from_secs(seconds)))
                : seconds \in {duration_fields_loop(iv, IntoIter(durationlike_field), min_field,
                                        lead.v * seconds_multiplier(durationlike_field))}})
                : min_field \in {unwrap_or(iv.last_field, durationlike_field)}})
      : lead \in {units_of(iv, durationlike_field)}})

computed_permissive(iv) ==
    CASE iv.leading_field = "Year" ->
           (CASE iv.last_field = Some("Month") ->
                   ValueOk(Months(positivity(iv) * unwrap_or(iv.parsed.year, 0) * 12
                                  + unwrap_or(iv.parsed.month, 0)))
              [] iv.last_field = Some("Year") \/ iv.last_field = None ->
                   IF iv.parsed.year = None THEN ValueError("No YEAR provided")
                   ELSE ValueOk(Months(positivity(iv) * iv.parsed.year.v * 12))
              [] OTHER ->
                   ValueError("Invalid specifier for YEAR precision: "
                              \o DateTimeFieldToString(iv.last_field.v)))
      [] iv.leading_field = "Month" ->
           (CASE iv.last_field = Some("Month") \/ iv.last_field = None ->
                   IF iv.parsed.month = None THEN ValueError("No MONTH provided")
                   ELSE ValueOk(Months(positivity(iv) * iv.parsed.month.v))
              [] OTHER ->
                   ValueError("Invalid specifier for MONTH precision: "
                              \o DateTimeFieldToString(iv.last_field.v)))
      [] OTHER -> computed_permissive_duration(iv, iv.leading_field)

\* once(Year).chain(Year.into_iter())
AllFields == <<"Year">> \o IntoIter("Year")

fields_msg(fields) ==
    display_separated([i \in 1..Len(fields) |-> DateTimeFieldToString(fields[i])], ", ")

present_fields(iv) ==
    fields_msg(SelectSeq(AllFields, LAMBDA field : units_of(iv, field) # None))

\* the for loop of fields_match_precision: the populated fields before
\* leading_field
extra_leading_fields(iv) ==
    SelectSeq(AllFields, LAMBDA field :
        units_of(iv, field) # None /\ FieldOrd(field) < FieldOrd(iv.leading_field))

\* the for loop of fields_match_precision: the populated fields after
\* last_field
extra_trailing_fields(iv, last_field) ==
    SelectSeq(AllFields, LAMBDA field :
        units_of(iv, field) # None /\ FieldOrd(field) > FieldOrd(last_field))

missing_fields_none(iv, last_field) == <<>>

\* the match of fields_match_precision on the units of the two fields
missing_fields(iv, last_field) ==
    (IF units_of(iv, iv.leading_field) = None THEN <<iv.leading_field>> ELSE <<>>)
        \o (IF units_of(iv, last_field) = None THEN <<last_field>> ELSE <<>>)

\* the errors vector of fields_match_precision before it is joined
fields_match_precision_errors(iv, last_field) ==
    (IF extra_leading_fields(iv) # <<>>
     THEN <<"The interval string '" \o iv.value \o "' specifies "
              \o fields_msg(extra_leading_fields(iv))
              \o "s but the significance requested is "
              \o DateTimeFieldToString(iv.leading_field)>>
     ELSE <<>>)
    \o (IF extra_trailing_fields(iv, last_field) # <<>>
        THEN <<"The interval string '" \o iv.value \o "' specifies "
                 \o fields_msg(extra_trailing_fields(iv, last_field))
                 \o "s but the requested precision would truncate to "
                 \o DateTimeFieldToString(last_field)>>
        ELSE <<>>)
    \o (IF missing_fields(iv, last_field) # <<>>
        THEN <<"The interval string '" \o iv.value \o "' provides "
                 \o present_fields(iv)
                 \o " - which does not include the requested field(s) "
                 \o fields_msg(missing_fields(iv, last_field))>>
        ELSE <<>>)

fields_match_precision(iv) ==
    The({
         IF errors # <<>> THEN ValueError(display_separated(errors, "; "))
         ELSE ValueOk(<<>>)
      : errors \in {fields_match_precision_errors(iv, unwrap_or(iv.last_field, iv.leading_field))}})

-----------------------------------------------------------------------------
(* The two checks of an IntervalValue: computed_permissive and              *)
(* fields_match_precision, each called once on the same value.              *)

\* the values a field of a ParsedDateTime takes
FieldValues == {None} \cup {Some(n) : n \in 0..MaxField}

\* the text of an Option<u64>
OptionText(o) == IF o = None THEN "_" ELSE NatToString(o.v)

\* a value string in the layout of an interval literal, _ for a field that
\* is not populated
ValueText(p) ==
    (IF p.is_positive THEN "" ELSE "-")
        \o OptionText(p.year) \o "-" \o OptionText(p.month) \o "-" \o OptionText(p.day)
        \o " " \o OptionText(p.hour) \o ":" \o OptionText(p.minute)
        \o ":" \o OptionText(p.second)
        \o (IF p.nano = None THEN "" ELSE "." \o NatToString(p.nano.v))

IntervalValue(value, parsed, leading_field, last_field) ==
    [value |-> value, parsed |-> parsed, leading_field |-> leading_field,
     leading_precision |-> None, last_field |-> last_field,
     fractional_seconds_precision |-> None]

ParsedDateTime(is_positive, year, month, day, hour, minute, second, nano) ==
    [is_positive |-> is_positive, year |-> year, month |-> month, day |-> day,
     hour |-> hour, minute |-> minute, second |-> second, nano |-> nano]

FieldSet == {DateTimeFields[i] : i \in 1..Len(DateTimeFields)}

BoundedParsed ==
    {ParsedDateTime(sn[1], ym[1], ym[2], d, h, m, s, sn[2]) :
        sn \in {<<TRUE, None>>, <<FALSE, Some(500000000)>>},
        ym \in {<<None, None>>, <<Some(1), None>>, <<None, Some(1)>>, <<Some(1), Some(1)>>},
        d \in FieldValues, h \in FieldValues, m \in FieldValues, s \in FieldValues}

BoundedIntervals ==
    {IntervalValue(ValueText(p), p, leading, last) :
        p \in BoundedParsed, leading \in FieldSet,
        last \in {None} \cup {Some(f) : f \in FieldSet}}

\* '1 5' with leading field DAY and '1:2:3', '1:1:1' with leading field HOUR
Parsed_1_5 == ParsedDateTime(TRUE, None, None, Some(1), Some(5), None, None, None)
Parsed_1_2_3 == ParsedDateTime(TRUE, None, None, None, Some(1), Some(2), Some(3), None)
Parsed_1_1_1 == ParsedDateTime(TRUE, None, None, None, Some(1), Some(1), Some(1), None)
\* '-1-2' with leading field YEAR
Parsed_Minus_1_2 == ParsedDateTime(FALSE, Some(1), Some(2), None, None, None, None, None)
\* '0 0' with leading field DAY
Parsed_0_0 == ParsedDateTime(TRUE, None, None, Some(0), Some(0), None, None, None)

ExampleIntervals ==
    {IntervalValue("1 5", Parsed_1_5, "Day", last) : last \in {None, Some("Hour")}}
    \cup {IntervalValue("1:2:3", Parsed_1_2_3, lead, last) :
             lead \in {"Day", "Hour", "Minute"}, last \in {Some("Minute"), Some("Second")}}
    \cup {IntervalValue("1:1:1", Parsed_1_1_1, "Hour", last) :
             last \in {None, Some("Minute"), Some("Second")}}
    \cup {IntervalValue("0 0", Parsed_0_0, lead, last) :
             lead \in {"Day", "Hour"}, last \in {None, Some("Hour"), Some("Minute")}}
    \cup {IntervalValue("-1-2", Parsed_Minus_1_2, "Year", last) :
             last \in {None, Some("Year"), Some("Month")}}

IntervalInit ==
    /\ interval \in BoundedIntervals \cup ExampleIntervals
    /\ computed = NotYet
    /\ matched = NotYet
    /\ pc = "idle"
    /\ result = NotYet
    /\ tokens = <<>> /\ index = 0
    /\ stmts = <<>> /\ expecting_statement_delimiter = FALSE
    /\ query = "" /\ pos = 0 /\ line = 1 /\ col = 1
    /\ out = <<>> /\ text = "" /\ expr1 = NotYet
    /\ DateTimeIdle
    /\ CursorIdle /\ BuildIdle /\ CopyIdle

\* interval.computed_permissive()
ComputedPermissive ==
    /\ computed = NotYet
    /\ computed' = computed_permissive(interval)
    /\ UNCHANGED <<interval, matched, pc, result, parserVars, tokVars, exprVars,
                 datetimeVars, cursorVars, buildVars, copyVars>>

\* interval.fields_match_precision()
FieldsMatchPrecision ==
    /\ matched = NotYet
    /\ matched' = fields_match_precision(interval)
    /\ UNCHANGED <<interval, computed, pc, result, parserVars, tokVars, exprVars,
                 datetimeVars, cursorVars, buildVars, copyVars>>

IntervalNext == ComputedPermissive \/ FieldsMatchPrecision

IntervalSpec == IntervalInit /\ [][IntervalNext]_vars

Populated(iv, f) == units_of(iv, f) # None

\* last_field, or leading_field when there is none
LastOrLeading(iv) == IF iv.last_field = None THEN iv.leading_field ELSE iv.last_field.v

\* the multipliers the claim names
ClaimedMultiplier(f) ==
    CASE f = "Day" -> 86400
      [] f = "Hour" -> 3600
      [] f = "Minute" -> 60
      [] f = "Second" -> 1

RECURSIVE SumOver(_, _)
\* the sum of value * multiplier over the populated fields of the sequence fs
SumOver(iv, fs) ==
    IF fs = <<>> THEN 0
    ELSE (IF Populated(iv, Head(fs))
          THEN units_of(iv, Head(fs)).v * ClaimedMultiplier(Head(fs)) ELSE 0)
         + SumOver(iv, Tail(fs))

\* the fields from leading_field down to last_field
FromLeadingToLast(iv) ==
    SelectSeq(DateTimeFields, LAMBDA f :
        /\ FieldOrd(iv.leading_field) <= FieldOrd(f)
        /\ FieldOrd(f) <= FieldOrd(LastOrLeading(iv)))

\* C9 speaks of a value that is computed, from a qualifier that runs from
\* the leading field down: the leading field is populated and last_field is
\* absent or not more significant than it
DurationCase(iv) ==
    /\ iv.leading_field \in {"Day", "Hour", "Minute", "Second"}
    /\ Populated(iv, iv.leading_field)
    /\ FieldOrd(iv.leading_field) <= FieldOrd(LastOrLeading(iv))

NoMoreSignificantField(iv) ==
    \A f \in FieldSet : Populated(iv, f) => FieldOrd(f) >= FieldOrd(iv.leading_field)
NoLessSignificantField(iv) ==
    \A f \in FieldSet : Populated(iv, f) => FieldOrd(f) <= FieldOrd(LastOrLeading(iv))
BothFieldsPopulated(iv) ==
    Populated(iv, iv.leading_field) /\ Populated(iv, LastOrLeading(iv))

\* the names of the fields that Keep holds of, most significant first
FieldNames(iv, Keep(_)) ==
    LET kept == SelectSeq(DateTimeFields, Keep)
    IN  display_separated([i \in 1..Len(kept) |-> DateTimeFieldToString(kept[i])], ", ")

\* the message of each check, as fields_match_precision words it
MoreSignificantMessage(iv) ==
    "The interval string '" \o iv.value \o "' specifies "
        \o FieldNames(iv, LAMBDA f : Populated(iv, f)
                                      /\ FieldOrd(f) < FieldOrd(iv.leading_field))
        \o "s but the significance requested is " \o DateTimeFieldToString(iv.leading_field)
LessSignificantMessage(iv) ==
    "The interval string '" \o iv.value \o "' specifies "
        \o FieldNames(iv, LAMBDA f : Populated(iv, f)
                                      /\ FieldOrd(f) > FieldOrd(LastOrLeading(iv)))
        \o "s but the requested precision would truncate to "
        \o DateTimeFieldToString(LastOrLeading(iv))
NotPopulatedMessage(iv) ==
    "The interval string '" \o iv.value \o "' provides "
        \o FieldNames(iv, LAMBDA f : Populated(iv, f))
        \o " - which does not include the requested field(s) "
        \o display_separated(
               (IF Populated(iv, iv.leading_field) THEN <<>>
                ELSE <<DateTimeFieldToString(iv.leading_field)>>)
               \o (IF Populated(iv, LastOrLeading(iv)) THEN <<>>
                   ELSE <<DateTimeFieldToString(LastOrLeading(iv))>>), ", ")

ViolatedChecks(iv) ==
    (IF NoMoreSignificantField(iv) THEN <<>> ELSE <<MoreSignificantMessage(iv)>>)
    \o (IF NoLessSignificantField(iv) THEN <<>> ELSE <<LessSignificantMessage(iv)>>)
    \o (IF BothFieldsPopulated(iv) THEN <<>> ELSE <<NotPopulatedMessage(iv)>>)

\* C10: fields_match_precision returns Ok exactly when no field more
\* significant than leading_field is populated, no field less significant
\* than last_field (leading_field when there is none) is populated, and both
\* are populated; otherwise it returns one error that joins the message of
\* every violated check with "; ".  '1:2:3' HOUR TO MINUTE fails with a
\* "requested precision would truncate" message, '1 5' DAY fails, '1 5' DAY
\* TO HOUR and '1:2:3' HOUR TO SECOND succeed.
C10_FieldsMatchPrecision ==
    /\ matched # NotYet =>
           /\ matched.st = "Ok" <=> /\ NoMoreSignificantField(interval)
                                    /\ NoLessSignificantField(interval)
                                    /\ BothFieldsPopulated(interval)
           /\ matched.st # "Ok" =>
                  matched = ValueError(display_separated(ViolatedChecks(interval), "; "))
    /\ (matched # NotYet
           /\ interval = IntervalValue("1:2:3", Parsed_1_2_3, "Hour", Some("Minute"))) =>
           matched = ValueError("The interval string '1:2:3' specifies SECONDs but the "
                                \o "requested precision would truncate to MINUTE")
    /\ (matched # NotYet /\ interval = IntervalValue("1 5", Parsed_1_5, "Day", None)) =>
           matched.st = "Err"
    /\ (matched # NotYet
           /\ interval \in {IntervalValue("1 5", Parsed_1_5, "Day", Some("Hour")),
                            IntervalValue("1:2:3", Parsed_1_2_3, "Hour", Some("Second"))}) =>
           matched = ValueOk(<<>>)

C10_Witness ==
    /\ interval = IntervalValue("1:2:3", Parsed_1_2_3, "Day", Some("Minute"))
    /\ matched.st = "Err"
    /\ Len(ViolatedChecks(interval)) = 2

-----------------------------------------------------------------------------
(* Interval value strings: tokenize_interval of src/parser/datetime.rs.     *)
(* A u32 is kept as its two 16-bit halves, hi * 65536 + lo, together with   *)
(* whether an operation that produced it overflowed 32 bits.                *)

U32(n) == [hi |-> n \div 65536, lo |-> n % 65536, overflow |-> FALSE]

\* carries lo into hi and wraps hi at 32 bits
u32_normalize(hi, lo, overflow) ==
    [hi |-> (hi + (lo \div 65536)) % 65536,
     lo |-> lo % 65536,
     overflow |-> overflow \/ (hi + (lo \div 65536)) >= 65536]

\* w * d for a factor d of at most 10
u32_mul_small(w, d) == u32_normalize(w.hi * d, w.lo * d, w.overflow)

u32_add(a, b) == u32_normalize(a.hi + b.hi, a.lo + b.lo, a.overflow \/ b.overflow)

RECURSIVE u32_mul(_, _)
\* w * m in u32, m taken digit by digit
u32_mul(w, m) ==
    IF m = 0 THEN U32(0)
    ELSE u32_add(u32_mul_small(u32_mul(w, m \div 10), 10), u32_mul_small(w, m % 10))

RECURSIVE u32_pow10(_)
\* 10_u32.pow(e)
u32_pow10(e) == IF e = 0 THEN U32(1) ELSE u32_mul_small(u32_pow10(e - 1), 10)

\* 1_000_000_000 / w for a w that is not 0
billion_div(w) ==
    IF w.hi >= 32768 \/ (w.hi = 0 /\ w.lo = 0) THEN 0
    ELSE 1000000000 \div (w.hi * 65536 + w.lo)

\* enum IntervalToken
IntervalDash == [type |-> "Dash"]
IntervalSpace == [type |-> "Space"]
IntervalColon == [type |-> "Colon"]
IntervalDot == [type |-> "Dot"]
Num(n) == [type |-> "Num", n |-> n]
Nanos(w) == [type |-> "Nanos", n |-> [hi |-> w.hi, lo |-> w.lo]]

DateTimeOk(v) == [st |-> "Ok", val |-> v]
DateTimeErr(kind, m) == [st |-> "Err", kind |-> kind, msg |-> m]
DateTimePanic(m) == [st |-> "Panic", msg |-> m]

\* the closure parse_num of tokenize_interval; the numbers of a value string
\* have at most 9 digits here, so that n.parse::<u64>() fails on "" only
parse_num(n, idx) ==
    IF n = ""
    THEN DateTimeErr("ParserError",
                     "Unable to parse value as a number at index " \o NatToString(idx)
                         \o ": cannot parse integer from empty string")
    ELSE DateTimeOk(Num(DigitsValue(n, 0)))

\* the state of the for loop of tokenize_interval
LoopState(ts, buf, frac) == [st |-> "Ok", toks |-> ts, num_buf |-> buf, frac |-> frac]

\* the arms that push parse_num(&num_buf, i)? and then a punctuation token
push_num_then(ts, buf, frac, i, tok) ==
    The({
         IF n.st # "Ok" THEN n
         ELSE LoopState(ts \o <<n.val, tok>>, "", frac)
      : n \in {parse_num(buf, i)}})

\* one turn of the for loop of tokenize_interval on the character chr at
\* offset i
tokenize_interval_char(v, i, chr, ts, buf, frac) ==
    CASE chr = "-" ->
           IF buf # ""
           THEN push_num_then(ts, buf, frac, i, IntervalDash)
           ELSE LoopState(ts \o <<IntervalDash>>, buf, frac)
      [] chr = " " -> push_num_then(ts, buf, frac, i, IntervalSpace)
      [] chr = ":" -> push_num_then(ts, buf, frac, i, IntervalColon)
      [] chr = "." -> push_num_then(ts, buf, TRUE, i, IntervalDot)
      [] IsDigit(chr) -> LoopState(ts, buf \o chr, frac)
      [] OTHER ->
           DateTimeErr("TokenizerError",
                       "Invalid character at offset " \o NatToString(i) \o " in " \o v
                           \o ": " \o SQ \o chr \o SQ)

RECURSIVE leading_zeroes(_)
\* num_buf.chars().take_while(|c| c == &'0').count()
leading_zeroes(buf) ==
    IF buf # "" /\ Head(buf) = "0" THEN 1 + leading_zeroes(Tail(buf)) ELSE 0

\* whether num_buf.parse::<u32>() succeeds: the digits after the leading
\* zeroes are a number of at most 4294967295
fits_u32(buf) ==
    The({
         \/ Len(d) < 10
         \/ /\ Len(d) = 10
            /\ \/ DigitsValue(SubSeq(d, 1, 9), 0) < 429496729
               \/ /\ DigitsValue(SubSeq(d, 1, 9), 0) = 429496729
                  /\ DigitsValue(SubSeq(d, 10, 10), 0) <= 5
      : d \in {SubSeq(buf, leading_zeroes(buf) + 1, Len(buf))}})

\* the outcomes of raw * multiplicand for a fraction num_buf: an overflow of
\* u32 arithmetic panics in a build with overflow checks and wraps in a build
\* without them
fraction_outcomes(ts, buf) ==
    The({
    The({
         (IF pow.overflow
          THEN {DateTimePanic("attempt to multiply with overflow")}
          ELSE {})
         \cup (IF product.overflow
               THEN {DateTimePanic("attempt to multiply with overflow")}
               ELSE {})
         \cup (IF pow.hi = 0 /\ pow.lo = 0
               THEN {DateTimePanic("attempt to divide by zero")}
               ELSE {DateTimeOk(ts \o <<Nanos(product)>>)})
      : product \in {u32_mul(U32(DigitsValue(buf, 0)), billion_div(pow))}})
      : pow \in {u32_pow10(1 + leading_zeroes(buf))}})

\* tokenize_interval after its for loop: the set of results it can return
tokenize_interval_finish(ts, buf, frac) ==
    IF buf = "" THEN {DateTimeOk(ts)}
    ELSE IF ~frac
    THEN {The({
               IF n.st # "Ok" THEN n ELSE DateTimeOk(ts \o <<n.val>>)
            : n \in {parse_num(buf, 0)}})}
    ELSE IF ~fits_u32(buf)
    THEN {DateTimeErr("ParserError",
                      "couldn't parse fraction of second " \o buf
                          \o ": number too large to fit in target type")}
    ELSE fraction_outcomes(ts, buf)

-----------------------------------------------------------------------------
(* The state machine of tokenize_interval: one action per way a turn of its *)
(* for loop ends, and one for the code after the loop.                      *)

\* the characters the value strings are made of
IntervalChars == {"1", "0", "-", " ", ":", ".", "a"}

RECURSIVE IntervalTextsOfLen(_)
IntervalTextsOfLen(n) ==
    IF n = 0 THEN {""}
    ELSE {c \o t : c \in IntervalChars, t \in IntervalTextsOfLen(n - 1)}

\* fractions of a second, of 1 to 9 digits
FractionExamples ==
    {"5", "25", "05", "123", "1", "9", "10", "42", "001", "0000001", "12345",
     "000000000", "999999999", "4", "04", "004", "0"}

IntervalValueStrings ==
    UNION {IntervalTextsOfLen(n) : n \in 0..MaxIntervalChars}
    \cup {before \o "." \o d :
             before \in {"1", "-1", "1:2:3", "1 2:3:4", "1-2"}, d \in FractionExamples}

DateTimeInit ==
    /\ value_str \in IntervalValueStrings
    /\ offset = 0
    /\ interval_toks = <<>>
    /\ num_buf = ""
    /\ last_field_is_frac = FALSE
    /\ pc = "chars"
    /\ result = NotYet
    /\ tokens = <<>> /\ index = 0
    /\ stmts = <<>> /\ expecting_statement_delimiter = FALSE
    /\ query = "" /\ pos = 0 /\ line = 1 /\ col = 1
    /\ out = <<>> /\ text = "" /\ expr1 = NotYet
    /\ interval = None /\ computed = NotYet /\ matched = NotYet
    /\ CursorIdle /\ BuildIdle /\ CopyIdle

\* the turn of the for loop on the next character
NextIntervalChar ==
    tokenize_interval_char(value_str, offset, CharAt(value_str, offset + 1),
                           interval_toks, num_buf, last_field_is_frac)

\* a turn of the for loop that ends in the next turn
TokenizeIntervalChar ==
    /\ pc = "chars"
    /\ offset < Len(value_str)
    /\ \E r \in {NextIntervalChar} :
           /\ r.st = "Ok"
           /\ interval_toks' = r.toks
           /\ num_buf' = r.num_buf
           /\ last_field_is_frac' = r.frac
    /\ offset' = offset + 1
    /\ UNCHANGED <<value_str, pc, result, parserVars, tokVars, exprVars, intervalVars, cursorVars, buildVars, copyVars>>

\* a turn of the for loop that returns an error
TokenizeIntervalError ==
    /\ pc = "chars"
    /\ offset < Len(value_str)
    /\ \E r \in {NextIntervalChar} :
           /\ r.st = "Err"
           /\ result' = r
    /\ pc' = "done"
    /\ UNCHANGED <<datetimeVars, parserVars, tokVars, exprVars, intervalVars, cursorVars, buildVars, copyVars>>

\* the code after the for loop
TokenizeIntervalFinish ==
    /\ pc = "chars"
    /\ offset = Len(value_str)
    /\ result' \in tokenize_interval_finish(interval_toks, num_buf, last_field_is_frac)
    /\ pc' = "done"
    /\ UNCHANGED <<datetimeVars, parserVars, tokVars, exprVars, intervalVars, cursorVars, buildVars, copyVars>>

DateTimeNext == TokenizeIntervalChar \/ TokenizeIntervalError \/ TokenizeIntervalFinish

DateTimeSpec == DateTimeInit /\ [][DateTimeNext]_vars

RECURSIVE DigitSuffix(_)
\* the digits a string ends with
DigitSuffix(s) ==
    IF s # "" /\ IsDigit(CharAt(s, Len(s)))
    THEN DigitSuffix(SubSeq(s, 1, Len(s) - 1)) \o CharAt(s, Len(s))
    ELSE ""

\* the digits that follow the dot of a value string that ends with a dot and
\* digits, "" for another string
FractionDigits(s) ==
    IF Len(DigitSuffix(s)) < Len(s)
          /\ CharAt(s, Len(s) - Len(DigitSuffix(s))) = "."
    THEN DigitSuffix(s) ELSE ""

RECURSIVE PaddedTo9(_)
\* d with zeros on its right up to 9 digits
PaddedTo9(d) == IF Len(d) >= 9 THEN d ELSE PaddedTo9(d \o "0")

\* C11: for a fraction d of 1 to 9 digits after the dot, tokenize_interval
\* ends with Nanos(n), n the value of d padded with zeros on the right to 9
\* digits ('5' 500000000, '25' 250000000, '05' 50000000, '123' 123000000);
\* n is below 1,000,000,000 and the computation never overflows u32.
C11_FractionToNanos ==
    (/\ pc = "done"
     /\ offset = Len(value_str)
     /\ FractionDigits(value_str) # ""
     /\ Len(FractionDigits(value_str)) <= 9) =>
        /\ result.st = "Ok"
        /\ result.val[Len(result.val)] =
               Nanos(U32(DigitsValue(PaddedTo9(FractionDigits(value_str)), 0)))

-----------------------------------------------------------------------------
(* Claims about the intervals that count months.                            *)

\* +1 for a positive interval and -1 for a negative one
ClaimedSign(iv) == IF iv.parsed.is_positive THEN 1 ELSE -1

\* C12: for leading_field YEAR with last_field MONTH the computed interval is
\* Months(s * (year * 12 + month)), the sign s applying to the whole month
\* count ('-1-2' YEAR TO MONTH is -14 months); for YEAR alone it is
\* Months(s * year * 12) and for MONTH alone Months(s * month).
C12_SignedMonths ==
    /\ (/\ computed # NotYet
        /\ interval.leading_field = "Year" /\ interval.last_field = Some("Month")
        /\ Populated(interval, "Year") /\ Populated(interval, "Month")) =>
           computed = ValueOk(Months(ClaimedSign(interval)
                                     * (interval.parsed.year.v * 12
                                        + interval.parsed.month.v)))
    /\ (/\ computed # NotYet
        /\ interval = IntervalValue("-1-2", Parsed_Minus_1_2, "Year", Some("Month"))) =>
           computed = ValueOk(Months(-14))
    /\ (/\ computed # NotYet
        /\ interval.leading_field = "Year" /\ interval.last_field = None
        /\ Populated(interval, "Year")) =>
           computed = ValueOk(Months(ClaimedSign(interval) * interval.parsed.year.v * 12))
    /\ (/\ computed # NotYet
        /\ interval.leading_field = "Month" /\ interval.last_field = None
        /\ Populated(interval, "Month")) =>
           computed = ValueOk(Months(ClaimedSign(interval) * interval.parsed.month.v))


\* the TO LAST field is more significant than the leading field
LastIsLarger(iv) ==
    iv.last_field # None /\ FieldOrd(iv.last_field.v) < FieldOrd(iv.leading_field)

\* C13: computed_permissive returns an error whenever the leading field has
\* no value in the parsed data or the TO LAST field is more significant than
\* the leading field, for every leading field: YEAR TO MONTH without a year,
\* DAY TO YEAR, HOUR TO DAY.
C13_ComputedPermissiveErrors ==
    (/\ computed # NotYet
     /\ ~Populated(interval, interval.leading_field) \/ LastIsLarger(interval)) =>
        computed.st = "Err"

-----------------------------------------------------------------------------
(* The cursor of the Parser: next_token, prev_token, peek_nth_token and     *)
(* parse_keywords called in any order on one Parser, and the index that     *)
(* parse_table_factor saves after a left parenthesis and restores when its  *)
(* first attempt fails.  pending holds, for every next_token call that no   *)
(* prev_token has undone, the token it returned and the tokens that were    *)
(* left before it.                                                          *)

\* the tokens the vectors are made of
CursorTokens ==
    {Space, make_keyword("NOT"), make_keyword("NULL"), make_word("a", NoQuote),
     Tok("LParen")}

RECURSIVE CursorVectorsOfLen(_)
CursorVectorsOfLen(n) ==
    IF n = 0 THEN {<<>>}
    ELSE {<<t>> \o v : t \in CursorTokens, v \in CursorVectorsOfLen(n - 1)}

CursorInputs == UNION {CursorVectorsOfLen(n) : n \in 0..MaxCursorTokens}

\* the keyword sequences parse_keywords is called with
KeywordSequences == {<<"NOT">>, <<"NOT", "NULL">>, <<"NULL", "NOT">>, <<"NOT", "NOT">>}

\* the tokens that are no whitespace from index idx on: what the cursor has
\* left to return
Remaining(toks, idx) ==
    SelectSeq(SubSeq(toks, idx + 1, Len(toks)), LAMBDA t : ~IsWhitespace(t))

CursorInit ==
    /\ tokens \in CursorInputs
    /\ index = 0
    /\ pending = <<>>
    /\ last_call = [op |-> "new"]
    /\ saved = None
    /\ pc = "cursor"
    /\ result = NotYet
    /\ stmts = <<>> /\ expecting_statement_delimiter = FALSE
    /\ query = "" /\ pos = 0 /\ line = 1 /\ col = 1
    /\ out = <<>> /\ text = "" /\ expr1 = NotYet
    /\ interval = None /\ computed = NotYet /\ matched = NotYet
    /\ DateTimeIdle /\ BuildIdle /\ CopyIdle

\* no assert of the cursor has failed
CursorRuns == pc = "cursor" /\ index # PanicIndex

\* the calls that are not undone are within the bound
CursorMayAdvance == CursorRuns /\ Len(pending) < MaxCursorCalls

PendingEntry(toks, idx) == [tok |-> next_token(toks, idx).tok, rest |-> Remaining(toks, idx)]

RECURSIVE PendingEntries(_, _, _)
\* the entries of n next_token calls in a row from index idx
PendingEntries(toks, idx, n) ==
    IF n = 0 THEN <<>>
    ELSE <<PendingEntry(toks, idx)>>
             \o PendingEntries(toks, next_token(toks, idx).index, n - 1)

\* parser.next_token()
CursorNextToken ==
    /\ CursorMayAdvance
    /\ \E r \in {next_token(tokens, index)} :
           /\ index' = r.index
           /\ last_call' = [op |-> "next_token", before |-> index, tok |-> r.tok]
    /\ pending' = Append(pending, PendingEntry(tokens, index))
    /\ UNCHANGED <<tokens, saved, pc, result, sqlVars, tokVars, exprVars, intervalVars,
                   datetimeVars, buildVars, copyVars>>

\* parser.prev_token(), after a next_token that is not undone yet
CursorPrevToken ==
    /\ CursorRuns
    /\ pending # <<>>
    /\ index' = prev_token(tokens, index)
    /\ last_call' = [op |-> "prev_token", before |-> index,
                     undone |-> pending[Len(pending)]]
    /\ pending' = SubSeq(pending, 1, Len(pending) - 1)
    /\ UNCHANGED <<tokens, saved, pc, result, sqlVars, tokVars, exprVars, intervalVars,
                   datetimeVars, buildVars, copyVars>>

\* parser.peek_nth_token(n), of which peek_token() is the case n = 0; it takes
\* &self
CursorPeekNthToken ==
    /\ CursorRuns
    /\ \E n \in 0..1 :
           last_call' = [op |-> "peek_nth_token", before |-> index, n |-> n,
                         tok |-> peek_nth_token(tokens, index, n)]
    /\ index' = index
    /\ UNCHANGED <<tokens, pending, saved, pc, result, sqlVars, tokVars, exprVars,
                   intervalVars, datetimeVars, buildVars, copyVars>>

\* parser.parse_keywords(keywords)
CursorParseKeywords ==
    /\ CursorMayAdvance
    /\ \E keywords \in KeywordSequences :
       \E r \in {parse_keywords(tokens, index, keywords)} :
           /\ index' = r.index
           /\ last_call' = [op |-> "parse_keywords", before |-> index,
                            keywords |-> keywords, ok |-> r.ok]
           /\ pending' = IF r.ok THEN pending \o PendingEntries(tokens, index, Len(keywords))
                         ELSE pending
    /\ UNCHANGED <<tokens, saved, pc, result, sqlVars, tokVars, exprVars, intervalVars,
                   datetimeVars, buildVars, copyVars>>

\* parse_table_factor: if self.consume_token(&Token::LParen) { let index = self.index;
CursorSaveIndex ==
    /\ CursorMayAdvance
    /\ saved = None
    /\ \E r \in {consume_token(tokens, index, Tok("LParen"))} :
           /\ r.ok
           /\ index' = r.index
           /\ last_call' = [op |-> "save", before |-> index]
           /\ pending' = Append(pending, PendingEntry(tokens, index))
           /\ saved' = Some([index |-> r.index,
                             pending |-> Append(pending, PendingEntry(tokens, index))])
    /\ UNCHANGED <<tokens, pc, result, sqlVars, tokVars, exprVars, intervalVars,
                   datetimeVars, buildVars, copyVars>>

\* parse_table_factor: Err(_) => { self.index = index;
CursorRestoreIndex ==
    /\ CursorRuns
    /\ saved # None
    /\ index' = saved.v.index
    /\ pending' = saved.v.pending
    /\ last_call' = [op |-> "restore", before |-> index]
    /\ saved' = None
    /\ UNCHANGED <<tokens, pc, result, sqlVars, tokVars, exprVars, intervalVars,
                   datetimeVars, buildVars, copyVars>>

CursorNext ==
    \/ CursorNextToken
    \/ CursorPrevToken
    \/ CursorPeekNthToken
    \/ CursorParseKeywords
    \/ CursorSaveIndex
    \/ CursorRestoreIndex

CursorSpec == CursorInit /\ [][CursorNext]_vars

-----------------------------------------------------------------------------
(* Claims about the cursor.                                                 *)

\* C14: prev_token rewinds exactly one token that is no whitespace: after a
\* prev_token that undoes a next_token which returned r (a token or the end
\* of the input), peek_token and the next next_token return r again, whatever
\* whitespace surrounds it, and k next_token calls followed by k prev_token
\* calls leave the cursor with the same tokens to return as before them.
C14_PrevTokenRewindsOne ==
    last_call.op = "prev_token" =>
        /\ peek_token(tokens, index) = last_call.undone.tok
        /\ next_token(tokens, index).tok = last_call.undone.tok
        /\ Remaining(tokens, index) = last_call.undone.rest

C14_Witness ==
    /\ last_call.op = "prev_token"
    /\ tokens = <<Space, make_word("a", NoQuote), Space>>
    /\ last_call.undone.tok = None
    /\ pending # <<>>
    /\ index = 3

\* C15: for every token vector, those that begin or end with whitespace
\* included, and every sequence of cursor calls in which each prev_token is
\* matched by an earlier next_token that is not undone yet, the index never
\* goes below 0 and the assert!(self.index > 0) of prev_token never fails;
\* the index restores of parse_keywords and parse_table_factor keep that.
C15_BoundedRewind ==
    pc = "cursor" => (index >= 0 /\ index # PanicIndex)

C15_Witness ==
    /\ last_call.op = "prev_token"
    /\ tokens = <<Space, make_word("a", NoQuote), Space>>
    /\ last_call.undone.tok = make_word("a", NoQuote)
    /\ pending = <<>>
    /\ index = 1

\* the last call was a next_token made after a next_token, not undone, that
\* had returned the end of the input
NextTokenPastEof ==
    /\ last_call.op = "next_token"
    /\ Len(pending) >= 2
    /\ pending[Len(pending) - 1].tok = None

\* C16: once next_token has returned the end of the input, every further
\* next_token returns the end of the input again and leaves the index
\* unchanged.
C16_NextTokenIdempotentPastEof ==
    NextTokenPastEof => (last_call.tok = None /\ index = last_call.before)

\* the keywords of the sequence match, in order, the next tokens that are no
\* whitespace
AllKeywordsMatch(toks, idx, keywords) ==
    /\ Len(Remaining(toks, idx)) >= Len(keywords)
    /\ \A k \in 1..Len(keywords) :
          /\ Remaining(toks, idx)[k].type = "Word"
          /\ to_uppercase(Remaining(toks, idx)[k].keyword) = to_uppercase(keywords[k])

\* C20: parse_keywords is all or nothing: when every keyword of the sequence
\* matches, in order, the next tokens that are no whitespace, they are all
\* consumed and it returns true; otherwise it returns false and the index is
\* the one before the call, even when a proper prefix had matched.
\* peek_token and peek_nth_token never change the index.
C20_ParseKeywordsAllOrNothing ==
    /\ last_call.op = "parse_keywords" =>
           IF AllKeywordsMatch(tokens, last_call.before, last_call.keywords)
           THEN /\ last_call.ok
                /\ Remaining(tokens, index) =
                       SubSeq(Remaining(tokens, last_call.before),
                              Len(last_call.keywords) + 1,
                              Len(Remaining(tokens, last_call.before)))
           ELSE /\ ~last_call.ok
                /\ index = last_call.before
    /\ last_call.op = "peek_nth_token" => index = last_call.before

C20_Witness ==
    /\ last_call.op = "parse_keywords"
    /\ last_call.keywords = <<"NOT", "NULL">>
    /\ tokens = <<Space, make_keyword("NOT"), make_word("a", NoQuote)>>
    /\ ~last_call.ok
    /\ index = 0

-----------------------------------------------------------------------------
(* SELECT: parse_select after the keyword SELECT, its projection list and   *)
(* the optional alias of a projection.                                      *)

\* dialect::keywords::RESERVED_FOR_COLUMN_ALIAS, the words of ALL_KEYWORDS
\* that never read as a column alias without AS
RESERVED_FOR_COLUMN_ALIAS ==
    {"WITH", "SELECT", "WHERE", "GROUP", "HAVING", "ORDER", "LIMIT", "OFFSET",
     "FETCH", "UNION", "EXCEPT", "INTERSECT", "FROM"}

Wildcard_item == [item |-> "Wildcard"]
QualifiedWildcard_item(prefix) == [item |-> "QualifiedWildcard", prefix |-> prefix]
ExprWithAlias(e, alias) == [item |-> "ExprWithAlias", expr |-> e, alias |-> alias]
UnnamedExpr(e) == [item |-> "UnnamedExpr", expr |-> e]
Select(distinct, projection, from, selection, group_by, having) ==
    [distinct |-> distinct, projection |-> projection, from |-> from,
     selection |-> selection, group_by |-> group_by, having |-> having]

parse_optional_alias(toks, idx, reserved_kwds) ==
    The({
    The({
         IF n.tok.type = "Word" /\ (after_as.ok \/ n.tok.keyword \notin reserved_kwds)
         THEN Ok(Some(as_ident(n.tok)), n.index)
         ELSE IF n.tok.type = "SingleQuotedString"
         THEN Ok(Some("'" \o n.tok.value \o "'"), n.index)
         ELSE IF after_as.ok
         THEN expected("an identifier after AS", n.tok, n.index)
         ELSE Ok(None, prev_token(toks, n.index))
      : n \in {next_token(toks, after_as.index)}})
      : after_as \in {parse_keyword(toks, idx, "AS")}})

\* one turn of the loop of parse_select_list: the projection of one expr
parse_select_item(toks, idx) ==
    The({IF e.st # "Ok" THEN e ELSE
         IF e.val.expr = "Wildcard" THEN Ok(Wildcard_item, e.index)
         ELSE IF e.val.expr = "QualifiedWildcard"
         THEN Ok(QualifiedWildcard_item(e.val.parts), e.index)
         ELSE The({IF alias.st # "Ok" THEN alias ELSE
                   IF alias.val # None
                   THEN Ok(ExprWithAlias(e.val, alias.val.v), alias.index)
                   ELSE Ok(UnnamedExpr(e.val), alias.index)
                : alias \in {parse_optional_alias(toks, e.index, RESERVED_FOR_COLUMN_ALIAS)}})
      : e \in {parse_expr(toks, idx)}})

RECURSIVE parse_select_list_from(_, _, _)
parse_select_list_from(toks, idx, projections) ==
    The({IF item.st # "Ok" THEN item ELSE
    The({
         IF c.ok
         THEN parse_select_list_from(toks, c.index, Append(projections, item.val))
         ELSE Ok(Append(projections, item.val), c.index)
      : c \in {consume_token(toks, item.index, Tok("Comma"))}})
      : item \in {parse_select_item(toks, idx)}})

parse_select_list(toks, idx) == parse_select_list_from(toks, idx, <<>>)

-----------------------------------------------------------------------------
(* FROM: parse_table_and_joins, and parse_table_factor with its two attempts *)
(* at what a left parenthesis starts.                                        *)

\* dialect::keywords::RESERVED_FOR_TABLE_ALIAS, the words of ALL_KEYWORDS
\* that never read as a table alias without AS
RESERVED_FOR_TABLE_ALIAS ==
    {"WITH", "SELECT", "WHERE", "GROUP", "HAVING", "ORDER", "LIMIT", "OFFSET",
     "FETCH", "UNION", "EXCEPT", "INTERSECT", "ON", "JOIN", "INNER", "CROSS",
     "FULL", "LEFT", "RIGHT", "NATURAL", "USING", "OUTER"}

\* enum TableFactor, struct TableAlias, struct TableWithJoins, struct Join
TableFactor_Table(name, alias, args, with_hints) ==
    [factor |-> "Table", name |-> name, alias |-> alias, args |-> args,
     with_hints |-> with_hints]
TableFactor_Derived(lateral, subquery, alias) ==
    [factor |-> "Derived", lateral |-> lateral, subquery |-> subquery, alias |-> alias]
TableFactor_NestedJoin(table_with_joins) ==
    [factor |-> "NestedJoin", table_with_joins |-> table_with_joins]
TableAlias(name, columns) == [name |-> name, columns |-> columns]
TableWithJoins(relation, joins) == [relation |-> relation, joins |-> joins]
Join(relation, join_operator) == [relation |-> relation, join_operator |-> join_operator]

\* enum JoinOperator and enum JoinConstraint
JoinOperator(op, join_constraint) == [op |-> op, constraint |-> join_constraint]
JoinConstraint_On(e) == [constraint |-> "On", expr |-> e]
JoinConstraint_Using(columns) == [constraint |-> "Using", columns |-> columns]
JoinConstraint_Natural == [constraint |-> "Natural"]

RECURSIVE parse_table_and_joins(_, _)
RECURSIVE parse_table_factor(_, _)

\* parse_parenthesized_column_list(optional)
parse_parenthesized_column_list(toks, idx, optional) ==
    The({IF l.ok
         THEN The({IF cols.st # "Ok" THEN cols ELSE
              The({IF r.st # "Ok" THEN r ELSE
                   Ok(cols.val, r.index)
                : r \in {expect_token(toks, cols.index, Tok("RParen"))}})
                : cols \in {parse_list_of_ids(toks, l.index, Tok("Comma"))}})
         ELSE IF optional THEN Ok(<<>>, idx)
         ELSE expected("a list of columns in parentheses", peek_token(toks, idx), idx)
      : l \in {consume_token(toks, idx, Tok("LParen"))}})

parse_optional_table_alias(toks, idx, reserved_kwds) ==
    The({IF name.st # "Ok" THEN name ELSE
         IF name.val = None THEN Ok(None, name.index)
         ELSE The({IF columns.st # "Ok" THEN columns ELSE
                   Ok(Some(TableAlias(name.val.v, columns.val)), columns.index)
                : columns \in {parse_parenthesized_column_list(toks, name.index, TRUE)}})
      : name \in {parse_optional_alias(toks, idx, reserved_kwds)}})

parse_join_constraint(toks, idx, natural) ==
    The({IF natural THEN Ok(JoinConstraint_Natural, idx)
         ELSE IF on.ok
         THEN The({IF e.st # "Ok" THEN e ELSE
                   Ok(JoinConstraint_On(e.val), e.index)
                : e \in {parse_expr(toks, on.index)}})
         ELSE IF using.ok
         THEN The({IF columns.st # "Ok" THEN columns ELSE
                   Ok(JoinConstraint_Using(columns.val), columns.index)
                : columns \in {parse_parenthesized_column_list(toks, using.index, FALSE)}})
         ELSE expected("ON, or USING after JOIN", peek_token(toks, idx), idx)
      : on \in {parse_keyword(toks, idx, "ON")},
        using \in {parse_keyword(toks, idx, "USING")}})

\* parse_derived_table_factor(lateral); idx is after the left parenthesis
parse_derived_table_factor(toks, idx, lateral) ==
    The({IF subquery.st # "Ok" THEN subquery ELSE
    The({IF r.st # "Ok" THEN r ELSE
    The({IF alias.st # "Ok" THEN alias ELSE
         Ok(TableFactor_Derived(lateral, subquery.val, alias.val), alias.index)
      : alias \in {parse_optional_table_alias(toks, r.index, RESERVED_FOR_TABLE_ALIAS)}})
      : r \in {expect_token(toks, subquery.index, Tok("RParen"))}})
      : subquery \in {parse_query(toks, idx)}})

\* the check of parse_table_factor on what the parentheses hold: idx is after
\* the table and its joins
check_joined_table(toks, idx, table_and_joins) ==
    IF table_and_joins.relation.factor # "NestedJoin" /\ table_and_joins.joins = <<>>
    THEN expected("joined table", peek_token(toks, idx), idx)
    ELSE The({IF r.st # "Ok" THEN r ELSE
              Ok(TableFactor_NestedJoin(table_and_joins), r.index)
           : r \in {expect_token(toks, idx, Tok("RParen"))}})

\* the arm Err(_) of parse_table_factor after self.index = index: the attempt
\* at a nested join
parse_nested_join(toks, idx) ==
    The({IF tj.st # "Ok" THEN tj ELSE
         check_joined_table(toks, tj.index, tj.val)
      : tj \in {parse_table_and_joins(toks, idx)}})

\* a restore that leaves the cursor where the failed attempt stopped
restore_index_nowhere(current, saved_index) == current

\* self.index = index
restore_index(current, saved_index) == saved_index

\* match self.parse_derived_table_factor(NotLateral) {...} after the attempt
\* derived; idx is after the left parenthesis.  LATERAL returns the attempt as
\* it is; an attempt that leaves this model is not decided here.
parse_after_derived(toks, idx, lateral, derived) ==
    IF lateral \/ derived.st # "Err" THEN derived
    ELSE The({parse_nested_join(toks, restored)
           : restored \in {restore_index(derived.index, idx)}})

\* the arms of parse_table_factor that hold a left parenthesis; idx is after it
parse_parenthesized_table_factor(toks, idx, lateral) ==
    The({
         parse_after_derived(toks, idx, lateral, derived)
      : derived \in {parse_derived_table_factor(toks, idx, lateral)}})

\* the MSSQL table hints of parse_table_factor; idx is after the alias
parse_table_hints(toks, idx) ==
    The({IF ~with.ok THEN Ok(<<>>, idx)
         ELSE The({IF l.ok
                   THEN The({IF hints.st # "Ok" THEN hints ELSE
                        The({IF r.st # "Ok" THEN r ELSE
                             Ok(hints.val, r.index)
                          : r \in {expect_token(toks, hints.index, Tok("RParen"))}})
                          : hints \in {parse_expr_list(toks, l.index)}})
                   ELSE Ok(<<>>, prev_token(toks, with.index))
                : l \in {consume_token(toks, with.index, Tok("LParen"))}})
      : with \in {parse_keyword(toks, idx, "WITH")}})

\* let args = if self.consume_token(&Token::LParen) {...}
parse_table_args(toks, idx) ==
    The({IF l.ok THEN parse_optional_args(toks, l.index) ELSE Ok(<<>>, idx)
      : l \in {consume_token(toks, idx, Tok("LParen"))}})

\* the arm of parse_table_factor for a table name
parse_named_table_factor(toks, idx) ==
    The({IF name.st # "Ok" THEN name ELSE
    The({IF args.st # "Ok" THEN args ELSE
    The({IF alias.st # "Ok" THEN alias ELSE
    The({IF with_hints.st # "Ok" THEN with_hints ELSE
         Ok(TableFactor_Table(name.val, alias.val, args.val, with_hints.val),
            with_hints.index)
      : with_hints \in {parse_table_hints(toks, alias.index)}})
      : alias \in {parse_optional_table_alias(toks, args.index, RESERVED_FOR_TABLE_ALIAS)}})
      : args \in {parse_table_args(toks, name.index)}})
      : name \in {parse_object_name(toks, idx)}})

\* parse_table_factor after the optional LATERAL
parse_table_factor_after_lateral(toks, idx, lateral) ==
    The({IF l.ok THEN parse_parenthesized_table_factor(toks, l.index, lateral)
         ELSE IF lateral
         THEN expected("subquery after LATERAL", peek_token(toks, idx), idx)
         ELSE parse_named_table_factor(toks, idx)
      : l \in {consume_token(toks, idx, Tok("LParen"))}})

parse_table_factor(toks, idx) ==
    The({parse_table_factor_after_lateral(toks, lateral.index, lateral.ok)
      : lateral \in {parse_keyword(toks, idx, "LATERAL")}})

\* a join of the loop of parse_table_and_joins
JoinOk(relation, join_operator, idx) == Ok(Join(relation, join_operator), idx)

\* the arm CROSS of the loop before its table factor; idx is after the keyword
parse_cross_join(toks, idx) ==
    The({
         IF k.kw = ""
         THEN expected("JOIN or APPLY after CROSS", peek_token(toks, idx), idx)
         ELSE Ok(IF k.kw = "JOIN" THEN "CrossJoin" ELSE "CrossApply", k.index)
      : k \in {parse_one_of_keywords(toks, idx, <<"JOIN", "APPLY">>)}})

\* the arm OUTER of the loop before its table factor; idx is after the keyword
parse_outer_apply(toks, idx) ==
    The({IF a.st # "Ok" THEN a ELSE Ok("OuterApply", a.index)
      : a \in {expect_keyword(toks, idx, "APPLY")}})

\* the keyword of the token self.peek_token(), "" when it is not a word
peek_keyword(toks, idx) ==
    The({IF t.type = "Word" THEN t.keyword ELSE "" : t \in {peek_token(toks, idx)}})

\* let join_operator_type = match peek_keyword.as_ref() {...}: the operator,
\* "" for the arm that breaks
parse_join_operator_type(toks, idx, natural) ==
    The({
         IF kw \in {"INNER", "JOIN"}
         THEN The({IF j.st # "Ok" THEN j ELSE Ok("Inner", j.index)
                : j \in {The({expect_keyword(toks, inner.index, "JOIN")
                           : inner \in {parse_keyword(toks, idx, "INNER")}})}})
         ELSE IF kw \in {"LEFT", "RIGHT", "FULL"}
         THEN The({IF j.st # "Ok" THEN j ELSE Ok(CASE kw = "LEFT" -> "LeftOuter"
                                   [] kw = "RIGHT" -> "RightOuter"
                                   [] kw = "FULL" -> "FullOuter", j.index)
                : j \in {The({expect_keyword(toks, outer.index, "JOIN")
                           : outer \in {The({parse_keyword(toks, n.index, "OUTER")
                                          : n \in {next_token(toks, idx)}})}})}})
         ELSE IF kw = "OUTER"
         THEN expected("LEFT, RIGHT, or FULL", peek_token(toks, idx), idx)
         ELSE IF natural
         THEN expected("a join type after NATURAL", peek_token(toks, idx), idx)
         ELSE Ok("", idx)
      : kw \in {peek_keyword(toks, idx)}})

\* the operators whose join has no constraint
UNCONSTRAINED_JOINS == {"CrossJoin", "CrossApply", "OuterApply"}

\* what the arms of let join = if ... else ... do before their table factor:
\* the operator, "" for the arm that breaks
parse_join_operator(toks, idx) ==
    The({IF cross.ok THEN parse_cross_join(toks, cross.index)
         ELSE IF outer.ok THEN parse_outer_apply(toks, outer.index)
         ELSE parse_join_operator_type(toks, natural.index, natural.ok)
      : cross \in {parse_keyword(toks, idx, "CROSS")},
        outer \in {parse_keyword(toks, idx, "OUTER")},
        natural \in {parse_keyword(toks, idx, "NATURAL")}})

\* what the arms do after their table factor
parse_join_after_relation(toks, idx, natural, type, relation) ==
    IF type \in UNCONSTRAINED_JOINS THEN JoinOk(relation, JoinOperator(type, None), idx)
    ELSE The({IF c.st # "Ok" THEN c ELSE
              JoinOk(relation, JoinOperator(type, c.val), c.index)
           : c \in {parse_join_constraint(toks, idx, natural)}})

\* let join = if ... else ...; None for the arm that breaks
parse_join(toks, idx) ==
    The({IF type.st # "Ok" THEN type ELSE
         IF type.val = "" THEN Ok(None, type.index)
         ELSE The({IF relation.st # "Ok" THEN relation ELSE
                   parse_join_after_relation(toks, relation.index, natural.ok,
                                             type.val, relation.val)
                : relation \in {parse_table_factor(toks, type.index)}})
      : type \in {parse_join_operator(toks, idx)},
        natural \in {parse_keyword(toks, idx, "NATURAL")}})

RECURSIVE parse_joins_from(_, _, _, _)
\* the loop of parse_table_and_joins
parse_joins_from(toks, idx, relation, joins) ==
    The({IF join.st # "Ok" THEN join ELSE
         IF join.val = None THEN Ok(TableWithJoins(relation, joins), join.index)
         ELSE parse_joins_from(toks, join.index, relation, Append(joins, join.val))
      : join \in {parse_join(toks, idx)}})

parse_table_and_joins(toks, idx) ==
    The({IF relation.st # "Ok" THEN relation ELSE
         parse_joins_from(toks, relation.index, relation.val, <<>>)
      : relation \in {parse_table_factor(toks, idx)}})

RECURSIVE parse_from_list(_, _, _)
\* the loop of parse_select after FROM
parse_from_list(toks, idx, from) ==
    The({IF tj.st # "Ok" THEN tj ELSE
         The({IF comma.ok THEN parse_from_list(toks, comma.index, Append(from, tj.val))
              ELSE Ok(Append(from, tj.val), tj.index)
           : comma \in {consume_token(toks, tj.index, Tok("Comma"))}})
      : tj \in {parse_table_and_joins(toks, idx)}})

\* let mut from = vec![]; if self.parse_keyword("FROM") {...}
parse_from(toks, idx) ==
    The({IF k.ok THEN parse_from_list(toks, k.index, <<>>) ELSE Ok(<<>>, idx)
      : k \in {parse_keyword(toks, idx, "FROM")}})

\* let having = if self.parse_keyword("HAVING") {...}, and the Select
parse_select_having(toks, idx, sel) ==
    The({IF k.ok
         THEN The({IF e.st # "Ok" THEN e ELSE
                   Ok([sel EXCEPT !.having = Some(e.val)], e.index)
                : e \in {parse_expr(toks, k.index)}})
         ELSE Ok(sel, idx)
      : k \in {parse_keyword(toks, idx, "HAVING")}})

\* let group_by = if self.parse_keywords(vec!["GROUP", "BY"]) {...}
parse_select_group_by(toks, idx, sel) ==
    The({IF k.ok
         THEN The({IF group_by.st # "Ok" THEN group_by ELSE
                   parse_select_having(toks, group_by.index,
                                       [sel EXCEPT !.group_by = group_by.val])
                : group_by \in {parse_expr_list(toks, k.index)}})
         ELSE parse_select_having(toks, idx, sel)
      : k \in {parse_keywords(toks, idx, <<"GROUP", "BY">>)}})

\* let selection = if self.parse_keyword("WHERE") {...}
parse_select_where(toks, idx, sel) ==
    The({IF k.ok
         THEN The({IF e.st # "Ok" THEN e ELSE
                   parse_select_group_by(toks, e.index,
                                         [sel EXCEPT !.selection = Some(e.val)])
                : e \in {parse_expr(toks, k.index)}})
         ELSE parse_select_group_by(toks, idx, sel)
      : k \in {parse_keyword(toks, idx, "WHERE")}})

\* parse_select after its projection
parse_select_clauses(toks, idx, distinct, projection) ==
    The({IF from.st # "Ok" THEN from ELSE
         parse_select_where(toks, from.index,
                            Select(distinct, projection, from.val, None, <<>>, None))
      : from \in {parse_from(toks, idx)}})

\* parse_select after ALL and DISTINCT
parse_select_projection(toks, idx, distinct) ==
    The({IF projection.st # "Ok" THEN projection ELSE
         parse_select_clauses(toks, projection.index, distinct, projection.val)
      : projection \in {parse_select_list(toks, idx)}})

parse_select(toks, idx) ==
    The({
    The({
         IF all.ok /\ distinct.ok
         THEN Err("Cannot specify both ALL and DISTINCT in SELECT", distinct.index)
         ELSE parse_select_projection(toks, distinct.index, distinct.ok)
      : distinct \in {parse_keyword(toks, all.index, "DISTINCT")}})
      : all \in {parse_keyword(toks, idx, "ALL")}})

-----------------------------------------------------------------------------
(* Query bodies: parse_query_body is a Pratt parser over the set operators, *)
(* parse_query wraps a body in its optional clauses.                        *)

\* enum SetExpr
SetExpr_Select(select) == [set_expr |-> "Select", select |-> select]
SetExpr_Query(subquery) == [set_expr |-> "Query", query |-> subquery]
SetOperation(left, op, all, right) ==
    [set_expr |-> "SetOperation", left |-> left, op |-> op, all |-> all,
     right |-> right]

\* struct Query
Query(ctes, body, order_by, limit, offset_rows, fetch) ==
    [ctes |-> ctes, body |-> body, order_by |-> order_by, limit |-> limit,
     offset |-> offset_rows, fetch |-> fetch]

\* parse_set_operator(&token)
parse_set_operator(token) ==
    IF token.type = "Word" /\ token.keyword = "UNION" THEN Some("Union")
    ELSE IF token.type = "Word" /\ token.keyword = "EXCEPT" THEN Some("Except")
    ELSE IF token.type = "Word" /\ token.keyword = "INTERSECT" THEN Some("Intersect")
    ELSE None

\* every set operator with the binding power of UNION
set_operator_precedence_flat(op) == IF op = None THEN 0 ELSE 10

\* let next_precedence = match op {...}, 0 standing for the arm that breaks
set_operator_precedence(op) ==
    IF op = None THEN 0
    ELSE IF op.v \in {"Union", "Except"} THEN 10
    ELSE 20

RECURSIVE parse_query_body(_, _, _)

\* the arm of parse_query_body for a left parenthesis that was consumed
parse_query_body_subquery(toks, idx) ==
    The({IF subquery.st # "Ok" THEN subquery ELSE
    The({IF r.st # "Ok" THEN r ELSE
         Ok(SetExpr_Query(subquery.val), r.index)
      : r \in {expect_token(toks, subquery.index, Tok("RParen"))}})
      : subquery \in {parse_query(toks, idx)}})

\* let mut expr = if ... else ...; the VALUES lists are outside this model
parse_query_body_start(toks, idx) ==
    The({IF select.ok
         THEN The({IF s.st # "Ok" THEN s ELSE
                   Ok(SetExpr_Select(s.val), s.index)
                : s \in {parse_select(toks, select.index)}})
         ELSE IF l.ok THEN parse_query_body_subquery(toks, l.index)
         ELSE IF vals.ok THEN Unmodelled(vals.index)
         ELSE expected("SELECT, VALUES, or a subquery in the query body",
                       peek_token(toks, idx), idx)
      : select \in {parse_keyword(toks, idx, "SELECT")},
        l \in {consume_token(toks, idx, Tok("LParen"))},
        vals \in {parse_keyword(toks, idx, "VALUES")}})

RECURSIVE parse_query_body_loop(_, _, _, _)

\* a turn of the loop that builds a SetOperation: idx is after the operator
parse_set_operation(toks, idx, precedence, expr, op) ==
    The({
    The({IF right.st # "Ok" THEN right ELSE
         parse_query_body_loop(toks, right.index, precedence,
                               SetOperation(expr, op.v, all.ok, right.val))
      : right \in {parse_query_body(toks, all.index, set_operator_precedence(op))}})
      : all \in {parse_keyword(toks, idx, "ALL")}})

\* the loop of parse_query_body
parse_query_body_loop(toks, idx, precedence, expr) ==
    The({
         IF op = None \/ precedence >= set_operator_precedence(op)
         THEN Ok(expr, idx)
         ELSE The({parse_set_operation(toks, n.index, precedence, expr, op)
                : n \in {next_token(toks, idx)}})
      : op \in {parse_set_operator(peek_token(toks, idx))}})

parse_query_body(toks, idx, precedence) ==
    The({IF e.st # "Ok" THEN e ELSE
         parse_query_body_loop(toks, e.index, precedence, e.val)
      : e \in {parse_query_body_start(toks, idx)}})

\* let order_by = if self.parse_keywords(vec!["ORDER", "BY"]) {...}
parse_query_order_by(toks, idx) ==
    The({IF k.ok THEN parse_order_by_expr_list(toks, k.index) ELSE Ok(<<>>, idx)
      : k \in {parse_keywords(toks, idx, <<"ORDER", "BY">>)}})

\* parse_query after its ORDER BY; LIMIT, OFFSET and FETCH are outside this
\* model
parse_query_limits(toks, idx, body, order_by) ==
    The({IF k.kw # "" THEN Unmodelled(k.index)
         ELSE Ok(Query(<<>>, body, order_by, None, None, None), idx)
      : k \in {parse_one_of_keywords(toks, idx, <<"LIMIT", "OFFSET", "FETCH">>)}})

\* parse_query; the CTEs of WITH are outside this model
parse_query(toks, idx) ==
    The({IF with.ok THEN Unmodelled(with.index)
         ELSE The({IF body.st # "Ok" THEN body ELSE
              The({IF order_by.st # "Ok" THEN order_by ELSE
                   parse_query_limits(toks, order_by.index, body.val, order_by.val)
                : order_by \in {parse_query_order_by(toks, body.index)}})
                : body \in {parse_query_body(toks, idx, 0)}})
      : with \in {parse_keyword(toks, idx, "WITH")}})

-----------------------------------------------------------------------------
(* Quantifiers and window frames: parse_select on the tokens after SELECT,  *)
(* parse_expr on a function call.  pc runs start, parsed.                   *)

QuantifierTexts ==
    {"", "ALL ", "DISTINCT ", "ALL DISTINCT ", "DISTINCT ALL ", "all distinct ",
     "distinct  all "}

SelectTexts ==
    {"SELECT " \o q \o rest :
        q \in QuantifierTexts,
        rest \in {"", "a", "a, b", "*", "a b", "a AS b", "a WHERE b",
                  "a GROUP BY b", "a HAVING b", "a FROM t", "a AS", ", a"}}

FrameBoundTexts ==
    {"CURRENT ROW", "1 PRECEDING", "UNBOUNDED PRECEDING", "1 FOLLOWING",
     "UNBOUNDED FOLLOWING", "PRECEDING", "1"}

FrameTexts ==
    {u \o " " \o b : u \in {"ROWS", "RANGE", "GROUPS", "a"}, b \in FrameBoundTexts}
    \cup {"ROWS BETWEEN " \o b1 \o " AND " \o b2 :
             b1 \in FrameBoundTexts, b2 \in FrameBoundTexts}
    \cup {"", "ROWS BETWEEN 1 PRECEDING", "1"}

FunctionTexts ==
    {"f(" \o q \o args \o ")" : q \in QuantifierTexts, args \in {"", "a", "*", "a, b"}}
    \cup {"f(a) OVER (" \o p \o frame \o ")" :
             p \in {"", "PARTITION BY a ", "ORDER BY a DESC, b "}, frame \in FrameTexts}
    \cup {"f(a) OVER", "f(a) OVER (PARTITION BY a ORDER BY b ASC ROWS 1 PRECEDING"}

SelectInputs == {TokensOf(t) : t \in SelectTexts \cup FunctionTexts}

SelectInit ==
    /\ tokens \in SelectInputs
    /\ index = 0
    /\ pc = "start"
    /\ result = NotYet
    /\ text = ""
    /\ out = NotYet
    /\ expr1 = NotYet
    /\ stmts = <<>> /\ expecting_statement_delimiter = FALSE
    /\ query = "" /\ pos = 0 /\ line = 1 /\ col = 1
    /\ interval = None /\ computed = NotYet /\ matched = NotYet
    /\ DateTimeIdle
    /\ CursorIdle /\ BuildIdle /\ CopyIdle

\* parse_query_body: the keyword SELECT, then parse_select
ParseSelect ==
    /\ pc = "start"
    /\ parse_keyword(tokens, index, "SELECT").ok
    /\ \E r \in {parse_select(tokens, parse_keyword(tokens, index, "SELECT").index)} :
           /\ result' = r
           /\ index' = r.index
    /\ pc' = "parsed"
    /\ UNCHANGED <<tokens, text, out, expr1, sqlVars, tokVars, intervalVars,
                 datetimeVars, cursorVars, buildVars, copyVars>>

\* parse_expr on a function call: parse_prefix hands the name to parse_function
ParseFunctionCall ==
    /\ pc = "start"
    /\ ~parse_keyword(tokens, index, "SELECT").ok
    /\ \E r \in {parse_expr(tokens, index)} :
           /\ result' = r
           /\ index' = r.index
    /\ pc' = "parsed"
    /\ UNCHANGED <<tokens, text, out, expr1, sqlVars, tokVars, intervalVars,
                 datetimeVars, cursorVars, buildVars, copyVars>>

SelectNext == ParseSelect \/ ParseFunctionCall

SelectSpec == SelectInit /\ [][SelectNext]_vars

\* the tokens of the statement without its whitespace
Significant(toks) == SelectSeq(toks, LAMBDA t : ~IsWhitespace(t))

\* the place of the first quantifier: after SELECT, or after the name and (
QuantifierPlace(toks) ==
    IF Significant(toks)[1].keyword = "SELECT" THEN 2 ELSE 3

\* both quantifiers are written, in one order or the other
BothQuantifiers(toks) ==
    /\ Len(Significant(toks)) > QuantifierPlace(toks)
    /\ \E q1 \in {"ALL", "DISTINCT"}, q2 \in {"ALL", "DISTINCT"} :
           /\ q1 # q2
           /\ Significant(toks)[QuantifierPlace(toks)] = make_keyword(q1)
           /\ Significant(toks)[QuantifierPlace(toks) + 1] = make_keyword(q2)

\* C17: parse_select and parse_function return a ParserError whenever both
\* ALL and DISTINCT are given, whichever of the two comes first.
C17_AllDistinctExclusive ==
    (pc = "parsed" /\ BothQuantifiers(tokens) /\ result.st # "Unmodelled")
        => result.st = "Err"

\* the window frame of a parsed function call, None when it has none
ParsedWindowFrame ==
    IF pc = "parsed" /\ result.st = "Ok" /\ "expr" \in DOMAIN result.val
       /\ result.val.expr = "Function" /\ result.val.over # None
    THEN result.val.over.v.window_frame
    ELSE None

\* C18: in every WindowFrame the parser produces, the start bound is not a
\* FOLLOWING bound, in the single-bound form and in the BETWEEN form.
C18_FollowingOnlyAsEndBound ==
    ParsedWindowFrame # None
        => ParsedWindowFrame.v.start_bound.bound # "Following"

-----------------------------------------------------------------------------
(* The precedence table against the infix dispatch, over the expression     *)
(* inputs: every cursor position of the token vector is looked at.          *)

\* the cursor positions of toks where get_next_precedence is above 0
InfixPositions(toks) ==
    {i \in 0..Len(toks) : get_next_precedence(toks, i) > 0}

\* parse_infix at position i with the precedence get_next_precedence gave
InfixAt(toks, i) ==
    parse_infix(toks, i, ExprA, get_next_precedence(toks, i))

\* C19: wherever get_next_precedence is above 0 parse_infix has a handler
\* for the token, and no parse reaches the unwrap() on None or the
\* panic!("No infix parser for token") of parse_infix.
C19_PrecedenceAgreesWithInfix ==
    /\ result.st # "Panic"
    /\ expr1.st # "Panic"
    /\ pc = "parsed" =>
           \A i \in InfixPositions(tokens) : InfixAt(tokens, i).st # "Panic"

\* a NOT IN was dispatched: the NOT has the precedence of IN and parse_infix
\* has produced the negated list from it
C19_Witness ==
    /\ pc = "parsed"
    /\ tokens = Tokens_a_NOT_IN
    /\ 1 \in InfixPositions(tokens)
    /\ InfixAt(tokens, 1).st = "Ok"
    /\ result.st = "Ok"
    /\ result.val.expr = "InList"
    /\ result.val.negated

-----------------------------------------------------------------------------
(* Numbers that start with a dot, and quoted literals the text ends in.     *)

\* the tokenizer is at a '.' that a digit follows
AtLeadingDotNumber ==
    /\ pc = "loop"
    /\ Peek(query, pos) = "."
    /\ IsDigit(Peek(query, pos + 1))

\* C26: at a '.' followed by a digit the tokenizer pushes a Number token and
\* goes on after the last character of that number: the characters that
\* follow the literal are still to be tokenized, none is discarded.
C26_LeadingDotKeepsTokenizing ==
    [][AtLeadingDotNumber =>
          /\ pc' = "loop"
          /\ Len(out') = Len(out) + 1
          /\ out'[Len(out')].type = "Number"
          /\ pos' = pos + Len(out'[Len(out')].value)]_vars

RECURSIVE ClosedLiteral(_)
\* body, the text after an opening quote, holds the closing quote: a quote
\* that no second quote follows
ClosedLiteral(body) ==
    IF body = "" THEN FALSE
    ELSE IF SubSeq(body, 1, 1) # SQ THEN ClosedLiteral(Tail(body))
    ELSE IF Len(body) >= 2 /\ SubSeq(body, 2, 2) = SQ
    THEN ClosedLiteral(SubSeq(body, 3, Len(body)))
    ELSE TRUE

\* the position of the opening quote when the tokenizer is at the start of
\* a literal '..., N'..., x'... or X'..., -1 otherwise
OpeningQuote ==
    IF Peek(query, pos) = SQ THEN pos
    ELSE IF Peek(query, pos) \in {"N", "x", "X"} /\ Peek(query, pos + 1) = SQ
    THEN pos + 1
    ELSE -1

\* the tokenizer is at the start of a quoted literal that the text does not
\* close
AtUnterminatedQuote ==
    /\ pc = "loop"
    /\ OpeningQuote >= 0
    /\ ~ClosedLiteral(SubSeq(query, OpeningQuote + 2, Len(query)))

\* C29: when a quoted literal is opened and the text ends before its closing
\* quote, tokenize returns a TokenizerError and pushes no string token.
C29_UnterminatedQuoteIsError ==
    [][AtUnterminatedQuote =>
          /\ pc' = "done"
          /\ result'.st = "Err"
          /\ out' = out]_vars

-----------------------------------------------------------------------------
(* The bounds of BETWEEN.                                                    *)

RECURSIVE SubExprs(_)
RECURSIVE SubExprsOfList(_)
\* the expressions of the tree e, e included
SubExprs(e) ==
    {e} \cup
    CASE e.expr \in {"IsNull", "IsNotNull", "UnaryOp", "Cast", "Collate", "Nested"} ->
             SubExprs(e.of)
      [] e.expr = "InList" -> SubExprs(e.of) \cup SubExprsOfList(e.list)
      [] e.expr = "Between" ->
             SubExprs(e.of) \cup SubExprs(e.low) \cup SubExprs(e.high)
      [] e.expr = "BinaryOp" -> SubExprs(e.left) \cup SubExprs(e.right)
      [] e.expr = "Function" -> SubExprsOfList(e.args)
      [] OTHER -> {}

SubExprsOfList(list) ==
    IF list = <<>> THEN {}
    ELSE SubExprs(Head(list)) \cup SubExprsOfList(Tail(list))

\* the operators whose precedence is 20 or lower
LowOperators ==
    {"And", "Or", "Eq", "NotEq", "Gt", "GtEq", "Lt", "LtEq", "Like", "NotLike"}

\* e was built by parse_infix from a token of precedence 20 or lower
BuiltAtOrBelowBetween(e) ==
    \/ e.expr = "BinaryOp" /\ e.op \in LowOperators
    \/ e.expr \in {"IsNull", "IsNotNull", "InList", "Between"}

Tokens_BETWEEN_AND_b == TokensOf("a BETWEEN 1 AND 2 AND b")
Tokens_BETWEEN_arithmetic == TokensOf("a BETWEEN 1 + 2 AND 3 * 4")

\* C30: the bounds of every Between the parser builds were parsed with the
\* floor 20: no bound is an expression built from AND, OR, IS, IN, BETWEEN,
\* LIKE or a comparison; a BETWEEN 1 AND 2 AND b is (a BETWEEN 1 AND 2) AND b
\* and a BETWEEN 1 + 2 AND 3 * 4 keeps the arithmetic inside its bounds.
C30_BetweenBounds ==
    pc = "parsed" =>
        /\ result.st = "Ok" =>
               \A e \in SubExprs(result.val) :
                   e.expr = "Between" =>
                       /\ ~BuiltAtOrBelowBetween(e.low)
                       /\ ~BuiltAtOrBelowBetween(e.high)
        /\ tokens = Tokens_BETWEEN_AND_b =>
               /\ result.st = "Ok"
               /\ result.val = BinaryOp(Between(ExprA, FALSE, Value(Long(1)),
                                                Value(Long(2))),
                                        "And", Identifier("b"))
        /\ tokens = Tokens_BETWEEN_arithmetic =>
               /\ result.st = "Ok"
               /\ result.val =
                      Between(ExprA, FALSE,
                              BinaryOp(Value(Long(1)), "Plus", Value(Long(2))),
                              BinaryOp(Value(Long(3)), "Multiply", Value(Long(4))))

C30_Witness ==
    /\ pc = "parsed"
    /\ tokens = Tokens_BETWEEN_AND_b
    /\ result.st = "Ok"
    /\ result.val.expr = "BinaryOp"
    /\ result.val.left.expr = "Between"
    /\ result.val.left.high = Value(Long(2))

-----------------------------------------------------------------------------
(* INTERVAL literals: what parse_literal_interval builds and the assert! of  *)
(* its Display.                                                              *)

\* the parse produced a Value::Interval
ParsedInterval ==
    /\ pc \in {"parsed", "displayed"}
    /\ result.st = "Ok"
    /\ result.val.expr = "Value"
    /\ result.val.v.value = "Interval"

\* C25 as stated: a leading field SECOND implies that last_field is None,
\* both precisions are present only with the leading field SECOND, and the
\* assert! of Display does not fail.
C25_SecondHasNoLastField_Stated ==
    ParsedInterval =>
        /\ result.val.v.leading_field = "Second" => result.val.v.last_field = None
        /\ (result.val.v.leading_precision # None
            /\ result.val.v.fractional_seconds_precision # None)
               => result.val.v.leading_field = "Second"
        /\ pc = "displayed" => text # AssertionFailed

\* C25: in every Value::Interval that parse_literal_interval builds, a
\* leading field SECOND implies that last_field is None, so the assert! of
\* Display does not fail; both precisions may be present with another leading
\* field, in the form <field> (p) TO SECOND (q).
C25_SecondHasNoLastField ==
    ParsedInterval =>
        /\ result.val.v.leading_field = "Second" => result.val.v.last_field = None
        /\ pc = "displayed" => text # AssertionFailed

\* INTERVAL '1' SECOND (2, 3) was parsed and rendered by the arm of Display
\* that holds the assert!
C25_Witness ==
    /\ ParsedInterval
    /\ pc = "displayed"
    /\ result.val.v.leading_field = "Second"
    /\ result.val.v.leading_precision = Some(2)
    /\ result.val.v.fractional_seconds_precision = Some(3)
    /\ text = "INTERVAL " \o SQ \o "1" \o SQ \o " SECOND (2, 3)"

-----------------------------------------------------------------------------
(* build_parsed_datetime (src/parser/datetime.rs): the tokens of an          *)
(* interval string are zipped with the tokens its leading field lets one     *)
(* expect.                                                                   *)

\* let all_toks = [...] of potential_interval_tokens
all_toks ==
    <<Num(0), IntervalDash, Num(0), IntervalDash, Num(0), IntervalSpace,
      Num(0), IntervalColon, Num(0), IntervalColon, Num(0), IntervalDot,
      Nanos(U32(0))>>

\* let offset = match from {...} of potential_interval_tokens
potential_offset(from) ==
    CASE from = "Year" -> 0
      [] from = "Month" -> 2
      [] from = "Day" -> 4
      [] from = "Hour" -> 6
      [] from = "Minute" -> 8
      [] from = "Second" -> 10

\* all_toks[offset..].to_vec()
potential_interval_tokens(from) ==
    SubSeq(all_toks, potential_offset(from) + 1, Len(all_toks))

RECURSIVE u32_to_string(_)
\* the decimal digits of a u32
u32_to_string(w) ==
    The({
         IF w.hi = 0 /\ w.lo < 10 THEN NatToString(w.lo)
         ELSE u32_to_string([hi |-> w.hi \div 10, lo |-> low \div 10])
                  \o NatToString(low % 10)
      : low \in {(w.hi % 10) * 65536 + w.lo}})

\* derive(Debug) of IntervalToken
IntervalTokenDebug(t) ==
    CASE t.type = "Num" -> "Num(" \o NatToString(t.n) \o ")"
      [] t.type = "Nanos" -> "Nanos(" \o u32_to_string(t.n) \o ")"
      [] OTHER -> t.type

\* a - b for two usize: the difference, and whether it wrapped around
usize_difference(a, b) ==
    IF a >= b THEN [st |-> "Ok", wrapped |-> FALSE, val |-> a - b]
    ELSE [st |-> "Ok", wrapped |-> TRUE, below_max |-> b - a - 1]

\* the outcomes of a - b for two usize: a subtraction that overflows panics
\* in a build with overflow checks and wraps around in a build without them
usize_sub(a, b) ==
    IF a >= b THEN {usize_difference(a, b)}
    ELSE {DateTimePanic("attempt to subtract with overflow"), usize_difference(a, b)}

\* n > d for a length n and a difference d: a wrapped difference is
\* usize::MAX - d.below_max, above every length
usize_gt(n, d) == ~d.wrapped /\ n > d.val

\* match precision { Some(p) => p, None => leading_field }
precision_or_leading(leading_field, precision) ==
    IF precision = None THEN leading_field ELSE precision.v

\* the warning of build_parsed_datetime
MorePrecisionWarning(toks, leading_field, precision) ==
    "More precision requested than supplied. Requested "
        \o DateTimeFieldToString(precision_or_leading(leading_field, precision))
        \o " but only provided " \o NatToString(Len(toks)) \o " fields"

\* whether actual.peek() is Some(Dash)
peek_is_dash(toks) == toks # <<>> /\ toks[1] = IntervalDash

\* build_parsed_datetime up to its for loop, given the difference
\* tokens.len() - 1
build_before_loop(toks, leading_field, precision, d) ==
    [st |-> "Ok",
     warnings |-> IF usize_gt(Len(potential_interval_tokens(leading_field)), d)
                  THEN <<MorePrecisionWarning(toks, leading_field, precision)>>
                  ELSE <<>>,
     actual |-> IF peek_is_dash(toks) THEN 1 ELSE 0,
     current_field |-> leading_field,
     pdt |-> ParsedDateTime(~peek_is_dash(toks), None, None, None, None, None, None,
                            None),
     seconds_seen |-> 0]

\* build_parsed_datetime up to its for loop: the set of its outcomes
build_start(toks, leading_field, precision) ==
    {IF d.st = "Panic" THEN d ELSE build_before_loop(toks, leading_field, precision, d) :
        d \in usize_sub(Len(toks), 1)}

\* match current_field { Year => pdt.year = Some(val), ... }
pdt_with(p, field, val) ==
    CASE field = "Year" -> [p EXCEPT !.year = Some(val)]
      [] field = "Month" -> [p EXCEPT !.month = Some(val)]
      [] field = "Day" -> [p EXCEPT !.day = Some(val)]
      [] field = "Hour" -> [p EXCEPT !.hour = Some(val)]
      [] field = "Minute" -> [p EXCEPT !.minute = Some(val)]
      [] field = "Second" -> [p EXCEPT !.second = Some(val)]

\* a turn of the for loop that goes on to the next turn
BuildContinue(field, p, seen) ==
    [st |-> "Continue", current_field |-> field, pdt |-> p, seconds_seen |-> seen]

\* the arm (Num(val), Num(_))
build_num_arm(val, field, p, seen) ==
    IF field = "Second"
    THEN IF seen = 0
         THEN BuildContinue(field, pdt_with(p, field, val), seen + 1)
         ELSE DateTimeErr("ParserError",
                          "Too many numbers to parse as a second at " \o NatToString(val))
    ELSE The({
              IF n = None THEN DateTimePanic("Exhausted day iterator")
              ELSE BuildContinue(n.v, pdt_with(p, field, val), seen)
           : n \in {DateTimeFieldIterator_next(field)}})

\* a match whose last arm goes on to the next turn instead of returning
build_match_lenient(atok, etok, field, p, seen) ==
    IF atok.type = "Num" /\ etok.type = "Num"
    THEN build_num_arm(atok.n, field, p, seen)
    ELSE IF atok.type = "Nanos" /\ etok.type = "Nanos" /\ seen = 1
    THEN BuildContinue(field, [p EXCEPT !.nano = Some(atok.n)], seen)
    ELSE BuildContinue(field, p, seen)

\* the arms of match (atok, etok)
build_match(atok, etok, field, p, seen) ==
    IF atok.type = etok.type /\ atok.type \in {"Dash", "Space", "Colon", "Dot"}
    THEN BuildContinue(field, p, seen)
    ELSE IF atok.type = "Num" /\ etok.type = "Num"
    THEN build_num_arm(atok.n, field, p, seen)
    ELSE IF atok.type = "Nanos" /\ etok.type = "Nanos" /\ seen = 1
    THEN BuildContinue(field, [p EXCEPT !.nano = Some(atok.n)], seen)
    ELSE DateTimeErr("ParserError",
                     "Invalid interval part: string provided " \o IntervalTokenDebug(atok)
                         \o " but expected " \o IntervalTokenDebug(etok))

RECURSIVE tokenize_interval_from(_, _, _, _, _)
\* tokenize_interval from the turn of its for loop on the character at offset
\* i: the set of the results it can return
tokenize_interval_from(v, i, ts, buf, frac) ==
    IF i = Len(v) THEN tokenize_interval_finish(ts, buf, frac)
    ELSE The({
              IF r.st # "Ok" THEN {r}
              ELSE tokenize_interval_from(v, i + 1, r.toks, r.num_buf, r.frac)
           : r \in {tokenize_interval_char(v, i, CharAt(v, i + 1), ts, buf, frac)}})

\* tokenize_interval(value): the set of the results it can return
tokenize_interval(v) == tokenize_interval_from(v, 0, <<>>, "", FALSE)

-----------------------------------------------------------------------------
(* The state machine of build_parsed_datetime on the tokens that             *)
(* tokenize_interval returns: one action for the code before the for loop,   *)
(* one per way a turn of the loop ends.                                      *)

\* value strings longer than MaxIntervalChars
BuildExamples ==
    {"1-1-1 1:1:1.5", "-1-1-1 1:1:1.5", "1-1-1 1:1:1", "1 1:1:1", "1 1:1:1.5",
     "1:1:1.5", "1:1:1", "1:1.5", "1 1:1", "-1 1", "1-1 1", "1-1-1", "1-1-1 1",
     "1:1:1:1", "1.5.5", "1.5-", "--1-1", "1-1:1", "1 1 1", "1:1.5:1", "1.2:3",
     "1:1:1.05", "-1:1:1.5", "1-1-", "1-1- "}

BuildValueStrings ==
    UNION {IntervalTextsOfLen(n) : n \in 0..MaxIntervalChars} \cup BuildExamples

\* the token vectors tokenize_interval returns
BuildTokenLists ==
    {r.val : r \in {t \in UNION {tokenize_interval(s) : s \in BuildValueStrings} :
                       t.st = "Ok"}}

BuildInit ==
    /\ build_tokens \in BuildTokenLists
    /\ build_leading_field \in FieldSet
    /\ build_precision \in {None, Some("Second")}
    /\ actual = 0 /\ zipped = 0 /\ seconds_seen = 0
    /\ current_field = build_leading_field
    /\ pdt = None
    /\ warnings = <<>>
    /\ pc = "start"
    /\ result = NotYet
    /\ tokens = <<>> /\ index = 0
    /\ stmts = <<>> /\ expecting_statement_delimiter = FALSE
    /\ query = "" /\ pos = 0 /\ line = 1 /\ col = 1
    /\ out = <<>> /\ text = "" /\ expr1 = NotYet
    /\ interval = None /\ computed = NotYet /\ matched = NotYet
    /\ DateTimeIdle /\ CursorIdle /\ CopyIdle

buildArgs == <<build_tokens, build_leading_field, build_precision>>

otherVars == <<parserVars, tokVars, exprVars, intervalVars, datetimeVars, cursorVars,
               copyVars>>

\* the code before the for loop, when tokens.len() - 1 yields a value
BuildStart ==
    /\ pc = "start"
    /\ \E r \in build_start(build_tokens, build_leading_field, build_precision) :
           /\ r.st = "Ok"
           /\ warnings' = r.warnings
           /\ actual' = r.actual
           /\ current_field' = r.current_field
           /\ pdt' = r.pdt
           /\ seconds_seen' = r.seconds_seen
    /\ pc' = "zip"
    /\ UNCHANGED <<buildArgs, zipped, result, otherVars>>

\* the code before the for loop, when tokens.len() - 1 panics
BuildSubtractOverflow ==
    /\ pc = "start"
    /\ \E r \in build_start(build_tokens, build_leading_field, build_precision) :
           /\ r.st = "Panic"
           /\ result' = r
    /\ pc' = "done"
    /\ UNCHANGED <<buildArgs, actual, zipped, current_field, pdt, seconds_seen,
                   warnings, otherVars>>

\* the zip has a pair to yield: both iterators have an element left
ZipHasNext ==
    /\ actual < Len(build_tokens)
    /\ zipped < Len(potential_interval_tokens(build_leading_field))

\* the body of the for loop on the pair the zip yields
NextBuildMatch ==
    build_match(build_tokens[actual + 1],
                potential_interval_tokens(build_leading_field)[zipped + 1],
                current_field, pdt, seconds_seen)

\* a turn of the for loop that ends in the next turn
BuildTurn ==
    /\ pc = "zip"
    /\ ZipHasNext
    /\ \E r \in {NextBuildMatch} :
           /\ r.st = "Continue"
           /\ current_field' = r.current_field
           /\ pdt' = r.pdt
           /\ seconds_seen' = r.seconds_seen
    /\ actual' = actual + 1
    /\ zipped' = zipped + 1
    /\ UNCHANGED <<buildArgs, warnings, pc, result, otherVars>>

\* a turn of the for loop that returns an error, or panics
BuildReturn ==
    /\ pc = "zip"
    /\ ZipHasNext
    /\ \E r \in {NextBuildMatch} :
           /\ r.st # "Continue"
           /\ result' = r
    /\ actual' = actual + 1
    /\ zipped' = zipped + 1
    /\ pc' = "done"
    /\ UNCHANGED <<buildArgs, current_field, pdt, seconds_seen, warnings, otherVars>>

\* the zip yields None: Zip::next takes the next element of actual, and then
\* the next element of expected only if actual had one; Ok((pdt, warnings))
BuildFinish ==
    /\ pc = "zip"
    /\ ~ZipHasNext
    /\ actual' = IF actual < Len(build_tokens) THEN actual + 1 ELSE actual
    /\ result' = DateTimeOk(<<pdt, warnings>>)
    /\ pc' = "done"
    /\ UNCHANGED <<buildArgs, zipped, current_field, pdt, seconds_seen, warnings,
                   otherVars>>

BuildNext == BuildStart \/ BuildSubtractOverflow \/ BuildTurn \/ BuildReturn \/ BuildFinish

BuildSpec == BuildInit /\ [][BuildNext]_vars

-----------------------------------------------------------------------------
(* Claims about build_parsed_datetime.                                       *)

\* C27: build_parsed_datetime returns Ok or a ParserError for every token
\* vector of tokenize_interval and every leading field, the empty vector of
\* the empty interval string included: no subtraction underflows and no
\* expectation fails.
C27_BuildNeverFaults ==
    (pc = "done") => result.st \in {"Ok", "Err"}

\* the tokens after the leading Dash, if there is one
BuildBody ==
    IF peek_is_dash(build_tokens) THEN Tail(build_tokens) ELSE build_tokens

\* Num,Dash,Num,Dash,Num,Space,Num,Colon,Num,Colon,Num,Dot,Nanos from the
\* leading field on
Skeleton == potential_interval_tokens(build_leading_field)

\* the positions at which a token stands against an element of the skeleton
ComparedPositions ==
    1..(IF Len(BuildBody) < Len(Skeleton) THEN Len(BuildBody) ELSE Len(Skeleton))

\* a token and the element of the skeleton at its position differ in kind
KindMismatch == \E i \in ComparedPositions : BuildBody[i].type # Skeleton[i].type

\* the values of the numeric tokens, in order
NumericValues == SelectSeq(BuildBody, LAMBDA t : t.type = "Num")

\* the field of a ParsedDateTime
PdtField(p, f) ==
    CASE f = "Year" -> p.year
      [] f = "Month" -> p.month
      [] f = "Day" -> p.day
      [] f = "Hour" -> p.hour
      [] f = "Minute" -> p.minute
      [] f = "Second" -> p.second

\* the k-th numeric token is in the k-th field from the leading field on,
\* and the fields without a numeric token are None
FieldsPopulatedInOrder(p) ==
    \A i \in 1..Len(DateTimeFields) :
        PdtField(p, DateTimeFields[i]) =
            IF /\ i >= FieldOrd(build_leading_field)
               /\ i - FieldOrd(build_leading_field) + 1 <= Len(NumericValues)
            THEN Some(NumericValues[i - FieldOrd(build_leading_field) + 1].n)
            ELSE None

\* the last token of the body, None for the empty body
LastBodyNanos ==
    IF BuildBody # <<>> /\ BuildBody[Len(BuildBody)].type = "Nanos"
    THEN Some(BuildBody[Len(BuildBody)].n)
    ELSE None

\* C24: build_parsed_datetime compares the i-th token after the optional
\* leading Dash with the i-th element of the skeleton that starts at the
\* leading field.  A token whose kind differs from the skeleton's makes the
\* call return a ParserError, and only that does.  On success no token was
\* left uncompared, is_positive is false exactly for a leading Dash, the k-th
\* numeric token is in the k-th field from the leading field on, and a Nanos
\* token is in nano only next to a seconds value.
C24_TokensMatchSkeleton ==
    (pc = "done") =>
        /\ KindMismatch => (result.st = "Err" /\ result.kind = "ParserError")
        /\ result.st = "Err" => KindMismatch
        /\ result.st = "Ok" =>
               /\ Len(BuildBody) <= Len(Skeleton)
               /\ actual = Len(build_tokens)
               /\ result.val[1].is_positive = ~peek_is_dash(build_tokens)
               /\ FieldsPopulatedInOrder(result.val[1])
               /\ result.val[1].nano = LastBodyNanos
               /\ result.val[1].nano # None => result.val[1].second # None

\* a negative year-to-nanoseconds string was built
C24_Witness ==
    /\ pc = "done"
    /\ result.st = "Ok"
    /\ ~result.val[1].is_positive
    /\ result.val[1].year # None
    /\ result.val[1].nano # None

-----------------------------------------------------------------------------
(* The state machine of parse_query on a query text: pc runs start, parsed.  *)

\* query bodies without a set operator
OperandTexts == {"SELECT a", "SELECT 1, b", "(SELECT c)"}

\* the set operators as they are written
SetOperatorTexts ==
    {"UNION", "EXCEPT", "INTERSECT", "UNION ALL", "EXCEPT ALL", "INTERSECT ALL"}

QueryTexts ==
    OperandTexts
    \cup {a \o " " \o o1 \o " " \o b :
             a \in OperandTexts, o1 \in SetOperatorTexts, b \in OperandTexts}
    \cup {a \o " " \o o1 \o " " \o b \o " " \o o2 \o " " \o c :
             a \in OperandTexts, o1 \in SetOperatorTexts, b \in OperandTexts,
             o2 \in SetOperatorTexts, c \in {"SELECT d", "(SELECT 2)"}}
    \cup {"SELECT a UNION SELECT b INTERSECT SELECT c EXCEPT SELECT d",
          "SELECT a INTERSECT SELECT b INTERSECT SELECT c UNION SELECT d",
          "SELECT a UNION (SELECT b EXCEPT SELECT c)",
          "(SELECT a UNION SELECT b) INTERSECT SELECT c",
          "SELECT a UNION SELECT b ORDER BY a",
          "SELECT a UNION", "SELECT a UNION ALL", "UNION SELECT a",
          "SELECT a UNION b", "(SELECT a UNION SELECT b", "SELECT a UNION ALL ALL SELECT b",
          "", "a"}

QueryInit ==
    /\ query \in QueryTexts
    /\ tokens = TokensOf(query)
    /\ index = 0
    /\ pc = "start"
    /\ result = NotYet
    /\ text = ""
    /\ out = NotYet
    /\ expr1 = NotYet
    /\ stmts = <<>> /\ expecting_statement_delimiter = FALSE
    /\ pos = 0 /\ line = 1 /\ col = 1
    /\ interval = None /\ computed = NotYet /\ matched = NotYet
    /\ DateTimeIdle /\ CursorIdle /\ BuildIdle /\ CopyIdle

\* parser.parse_query()
ParseQuery ==
    /\ pc = "start"
    /\ \E r \in {parse_query(tokens, index)} :
           /\ result' = r
           /\ index' = r.index
    /\ pc' = "parsed"
    /\ UNCHANGED <<tokens, text, out, expr1, sqlVars, tokVars, intervalVars,
                   datetimeVars, cursorVars, buildVars, copyVars>>

QueryNext == ParseQuery

QuerySpec == QueryInit /\ [][QueryNext]_vars

\* the body an operand text parses to when it stands alone
OperandBody == [a \in OperandTexts \cup {"SELECT d", "(SELECT 2)"} |->
                   parse_query_body(TokensOf(a), 0, 0).val]

\* the operator of a set operator text, and whether ALL follows it
OperatorOf(o) ==
    CASE o \in {"UNION", "UNION ALL"} -> "Union"
      [] o \in {"EXCEPT", "EXCEPT ALL"} -> "Except"
      [] o \in {"INTERSECT", "INTERSECT ALL"} -> "Intersect"

HasAll(o) == o \in {"UNION ALL", "EXCEPT ALL", "INTERSECT ALL"}

\* the binding powers the claim names
ClaimedSetPrecedence(o) == IF OperatorOf(o) = "Intersect" THEN 20 ELSE 10

\* the tree of one set operator
SetTree(l, o, r) == SetOperation(l, OperatorOf(o), HasAll(o), r)

\* the tree of a o1 b o2 c: the second operator takes b only if it binds
\* tighter than the first, otherwise the chain groups to the left
ClaimedSetTree(a, o1, b, o2, c) ==
    IF ClaimedSetPrecedence(o2) > ClaimedSetPrecedence(o1)
    THEN SetTree(OperandBody[a], o1, SetTree(OperandBody[b], o2, OperandBody[c]))
    ELSE SetTree(SetTree(OperandBody[a], o1, OperandBody[b]), o2, OperandBody[c])

\* the query text is a o1 b o2 c
IsSetChain(a, o1, b, o2, c) ==
    query = a \o " " \o o1 \o " " \o b \o " " \o o2 \o " " \o c

\* C22: UNION and EXCEPT bind with power 10 and group to the left, INTERSECT
\* binds with power 20: q1 UNION q2 EXCEPT q3 is Except(Union(q1, q2), q3),
\* q1 UNION q2 INTERSECT q3 is Union(q1, Intersect(q2, q3)), and
\* q1 INTERSECT q2 UNION q3 is Union(Intersect(q1, q2), q3).
C22_SetOperatorPrecedence ==
    (pc = "parsed") =>
        \A a \in OperandTexts, b \in OperandTexts, c \in {"SELECT d", "(SELECT 2)"},
           o1 \in SetOperatorTexts, o2 \in SetOperatorTexts :
            IsSetChain(a, o1, b, o2, c) =>
                /\ result.st = "Ok"
                /\ result.index = Len(tokens)
                /\ result.val.body = ClaimedSetTree(a, o1, b, o2, c)

\* q1 UNION q2 INTERSECT q3 was parsed to Union(q1, Intersect(q2, q3))
C22_Witness ==
    /\ pc = "parsed"
    /\ query = "SELECT a UNION SELECT 1, b INTERSECT SELECT d"
    /\ result.st = "Ok"
    /\ result.val.body.op = "Union"
    /\ result.val.body.right.set_expr = "SetOperation"
    /\ result.val.body.right.op = "Intersect"

-----------------------------------------------------------------------------
(* parse_tab_value (src/parser.rs): the payload of COPY ... FROM STDIN, read *)
(* token by token.  pc runs loop, done.                                      *)

\* a turn of the while loop that goes on to the next turn
CopyContinue(vals, cont, idx) ==
    [st |-> "Continue", values |-> vals, content |-> cont, index |-> idx]

\* the arm Token::Backslash of parse_tab_value; idx is after the backslash
copy_backslash(toks, idx, vals, cont) ==
    IF consume_token(toks, idx, Tok("Period")).ok
    THEN Ok(vals, consume_token(toks, idx, Tok("Period")).index)
    ELSE The({
              IF n.tok.type = "Word" /\ n.tok.value = "N"
              THEN CopyContinue(Append(vals, None), cont, n.index)
              ELSE CopyContinue(vals, cont, n.index)
           : n \in {next_token(toks, idx)}})

\* a turn of the while loop of parse_tab_value, and the return after it when
\* next_token_no_skip() is None
copy_turn(toks, idx, vals, cont) ==
    The({
         IF t = None THEN Ok(vals, idx + 1)
         ELSE IF t = Tab \/ t = Newline
         THEN CopyContinue(Append(vals, Some(cont)), "", idx + 1)
         ELSE IF t = Tok("Backslash") THEN copy_backslash(toks, idx + 1, vals, cont)
         ELSE CopyContinue(vals, cont \o TokenToString(t), idx + 1)
      : t \in {TokensGet(toks, idx)}})

\* number of fields of a payload
MaxCopyFields == 2

\* the fields of the payloads
CopyFieldTexts == {"1", "a b", "\\N", "", "x\\y"}

RECURSIVE CopyRows(_)
\* n fields, each followed by a tab or a newline
CopyRows(n) ==
    IF n = 0 THEN {""}
    ELSE {f \o d \o rest : f \in CopyFieldTexts, d \in {"\t", "\n"}, rest \in CopyRows(n - 1)}

\* the payloads: delimited fields, then the end marker or the end of the text
CopyPayloads ==
    {rows \o e : rows \in UNION {CopyRows(n) : n \in 0..MaxCopyFields},
                 e \in {"\\.", "", "\\.\n1\t"}}
    \cup {"1\t2", "1\\.", "\\", "1\t\\", "\\N", "\\ .", "1\t\\N\t2\n\\.\n"}

CopyInit ==
    /\ query \in CopyPayloads
    /\ tokens = TokensOf(query)
    /\ index = 0
    /\ values = <<>>
    /\ content = ""
    /\ pc = "loop"
    /\ result = NotYet
    /\ text = ""
    /\ out = NotYet
    /\ expr1 = NotYet
    /\ stmts = <<>> /\ expecting_statement_delimiter = FALSE
    /\ pos = 0 /\ line = 1 /\ col = 1
    /\ interval = None /\ computed = NotYet /\ matched = NotYet
    /\ DateTimeIdle /\ CursorIdle /\ BuildIdle

\* a turn of the while loop that ends in the next turn
CopyTurn ==
    /\ pc = "loop"
    /\ \E r \in {copy_turn(tokens, index, values, content)} :
           /\ r.st = "Continue"
           /\ values' = r.values
           /\ content' = r.content
           /\ index' = r.index
    /\ UNCHANGED <<tokens, pc, result, text, out, expr1, sqlVars, tokVars, intervalVars,
                   datetimeVars, cursorVars, buildVars>>

\* return Ok(values): after the end marker, or when the tokens are used up
CopyReturn ==
    /\ pc = "loop"
    /\ \E r \in {copy_turn(tokens, index, values, content)} :
           /\ r.st = "Ok"
           /\ result' = r
           /\ index' = r.index
    /\ pc' = "done"
    /\ UNCHANGED <<tokens, values, content, text, out, expr1, sqlVars, tokVars,
                   intervalVars, datetimeVars, cursorVars, buildVars>>

CopyNext == CopyTurn \/ CopyReturn

CopySpec == CopyInit /\ [][CopyNext]_vars

RECURSIVE PayloadFields(_, _, _)
\* the fields of a payload text: the texts that a tab or a newline ends,
\* up to the end marker at the start of a field or the end of the text
PayloadFields(s, cur, acc) ==
    IF s = "" THEN acc
    ELSE IF cur = "" /\ Len(s) >= 2 /\ SubSeq(s, 1, 2) = "\\." THEN acc
    ELSE IF Head(s) \in {"\t", "\n"} THEN PayloadFields(Tail(s), "", Append(acc, cur))
    ELSE PayloadFields(Tail(s), cur \o Head(s), acc)

\* the entry of a field: NULL for \N, its text for another field
FieldEntry(f) == IF f = "\\N" THEN None ELSE Some(f)

\* the payload is delimited fields and then the end marker or nothing
WellFormedPayload ==
    \E rows \in UNION {CopyRows(n) : n \in 0..MaxCopyFields},
       e \in {"\\.", "", "\\.\n1\t"} : query = rows \o e

\* C23: the payload parser returns exactly one entry per field, in order:
\* None for a field that is \N (and nothing else for it), the text of any
\* other field, and nothing of what follows the end marker.
C23_OneEntryPerField ==
    (pc = "done" /\ WellFormedPayload) =>
        /\ result.st = "Ok"
        /\ Len(result.val) = Len(PayloadFields(query, "", <<>>))
        /\ \A i \in 1..Len(result.val) :
               result.val[i] = FieldEntry(PayloadFields(query, "", <<>>)[i])

-----------------------------------------------------------------------------
(* The state machine of parse_table_factor on the text of a table factor:    *)
(* pc runs start, derived, failed, nested, done.  last_call holds the        *)
(* attempt at a derived table once it was made.                              *)

\* what stands between the parentheses of a table factor
ParenthesizedTexts ==
    {"SELECT 1", "SELECT a FROM t", "a", "a NATURAL JOIN b", "a JOIN b ON c",
     "a CROSS JOIN b", "a JOIN b", "(SELECT 1) NATURAL JOIN", "(SELECT 1) t",
     "(a NATURAL JOIN b)", "(a)", "(SELECT 1)", "SELECT 1 UNION", "a NATURAL b",
     "a OUTER APPLY f(1)", "", "(", "(SELECT 1) AS t, b"}

\* the same, of more tokens
LongParenthesizedTexts ==
    {"(SELECT 1) AS t NATURAL JOIN u", "(SELECT 1)UNION(SELECT 2)",
     "((SELECT 1)UNION(SELECT 2))t JOIN u ON 1", "SELECT a FROM (b NATURAL JOIN c)",
     "a LEFT JOIN b USING (c)", "(SELECT 1) t JOIN (SELECT 2) u"}

TableFactorTexts ==
    {"(" \o p \o close \o alias :
        p \in ParenthesizedTexts, close \in {")", ""}, alias \in {"", " AS x", " x (c)"}}
    \cup {"(" \o p \o close : p \in LongParenthesizedTexts, close \in {")", ""}}
    \cup {"t", "t AS x", "s.t x", "f(1, 2) AS t (c)", "t WITH (a)", "t WITH b",
          "LATERAL (SELECT 1) AS t", "LATERAL t", "1", ""}

TableFactorInputs == {TokensOf(t) : t \in TableFactorTexts}

TableFactorInit ==
    /\ tokens \in TableFactorInputs
    /\ query = ""
    /\ index = 0
    /\ pending = <<>>
    /\ last_call = [op |-> "new"]
    /\ saved = None
    /\ pc = "start"
    /\ result = NotYet
    /\ text = ""
    /\ out = NotYet
    /\ expr1 = NotYet
    /\ stmts = <<>> /\ expecting_statement_delimiter = FALSE
    /\ pos = 0 /\ line = 1 /\ col = 1
    /\ interval = None /\ computed = NotYet /\ matched = NotYet
    /\ DateTimeIdle /\ BuildIdle /\ CopyIdle

tableFactorFrame == <<tokens, pending, text, out, expr1, sqlVars, tokVars, intervalVars,
                      datetimeVars, buildVars, copyVars>>

\* the factor starts with a left parenthesis and not with LATERAL
AtParenthesis ==
    /\ ~parse_keyword(tokens, index, "LATERAL").ok
    /\ consume_token(tokens, index, Tok("LParen")).ok

\* if self.consume_token(&Token::LParen) { let index = self.index;
TableFactorParenthesis ==
    /\ pc = "start"
    /\ AtParenthesis
    /\ index' = consume_token(tokens, index, Tok("LParen")).index
    /\ saved' = Some(index')
    /\ pc' = "derived"
    /\ UNCHANGED <<last_call, result, tableFactorFrame>>

\* the arms of parse_table_factor for LATERAL and for a table name
TableFactorOther ==
    /\ pc = "start"
    /\ ~AtParenthesis
    /\ \E r \in {parse_table_factor(tokens, index)} :
           /\ result' = r
           /\ index' = r.index
    /\ pc' = "done"
    /\ UNCHANGED <<last_call, saved, tableFactorFrame>>

\* match self.parse_derived_table_factor(NotLateral): Ok(table_factor) is
\* returned; on Err(_) the cursor is where the attempt stopped
TableFactorDerived ==
    /\ pc = "derived"
    /\ \E r \in {parse_derived_table_factor(tokens, index, FALSE)} :
           /\ last_call' = [op |-> "parse_derived_table_factor", before |-> index,
                            result |-> r]
           /\ result' = IF r.st = "Err" THEN result ELSE r
           /\ index' = r.index
           /\ pc' = IF r.st = "Err" THEN "failed" ELSE "done"
    /\ UNCHANGED <<saved, tableFactorFrame>>

\* self.index = index;
TableFactorRestore ==
    /\ pc = "failed"
    /\ index' = restore_index(index, saved.v)
    /\ pc' = "nested"
    /\ UNCHANGED <<last_call, saved, result, tableFactorFrame>>

\* the rest of the arm Err(_): parse_table_and_joins, the check of what it
\* returned, the right parenthesis
TableFactorNestedJoin ==
    /\ pc = "nested"
    /\ \E r \in {parse_nested_join(tokens, index)} :
           /\ result' = r
           /\ index' = r.index
    /\ pc' = "done"
    /\ UNCHANGED <<last_call, saved, tableFactorFrame>>

TableFactorNext ==
    \/ TableFactorParenthesis \/ TableFactorOther \/ TableFactorDerived
    \/ TableFactorRestore \/ TableFactorNestedJoin

TableFactorSpec == TableFactorInit /\ [][TableFactorNext]_vars

\* the position right after the left parenthesis the factor starts with
AfterParenthesis == consume_token(tokens, 0, Tok("LParen")).index

\* the attempt at a derived table was made and failed
DerivedFailed ==
    /\ last_call.op = "parse_derived_table_factor"
    /\ last_call.result.st = "Err"

\* C21: after the left parenthesis the derived table is tried first, from the
\* position right after the parenthesis.  When it fails, the nested join is
\* tried from that same position, however far the failed attempt went, and
\* what parse_table_factor returns is what the nested-join attempt returns:
\* its table factor, or its error if it fails too.
C21_BacktrackBeforeNestedJoin ==
    /\ pc = "derived" => (index = AfterParenthesis /\ last_call.op = "new")
    /\ pc = "nested" => (DerivedFailed /\ index = AfterParenthesis)
    /\ (pc = "done" /\ DerivedFailed) =>
           result = parse_nested_join(tokens, AfterParenthesis)
    /\ (pc = "done" /\ last_call.op = "parse_derived_table_factor" /\ ~DerivedFailed) =>
           result = last_call.result

\* the failed attempt went beyond the parenthesis, and the nested join was
\* parsed all the same
C21_Witness ==
    /\ pc = "done"
    /\ DerivedFailed
    /\ last_call.result.index > AfterParenthesis + 1
    /\ result.st = "Ok"
    /\ result.val.factor = "NestedJoin"

\* both attempts failed, at different tokens
C21_WitnessDoubleFailure ==
    /\ pc = "done"
    /\ DerivedFailed
    /\ result.st = "Err"
    /\ result.msg # last_call.result.msg

-----------------------------------------------------------------------------
(* Termination of parse_sql.  The loop of parse_sql is the only thing that  *)
(* runs: a turn that can be taken is taken, which is weak fairness of Next. *)
(* The statements hold queries whose FROM clause opens a parenthesis, so    *)
(* that parse_table_factor backtracks inside a turn.                        *)

TerminationStatements ==
    {"", "COMMIT", "ROLLBACK", "(SELECT 1)", "SELECT a FROM (b)",
     "SELECT 1 FROM (a NATURAL JOIN b)", "SELECT a FROM (SELECT 2) t"}

\* a statement delimiter, and none
StatementSeparators == {"; ", " "}

TerminationTexts ==
    TerminationStatements
        \cup {a \o sep \o b : a \in TerminationStatements, sep \in StatementSeparators,
                               b \in TerminationStatements}

TerminationInputs == {TokensOf(t) : t \in TerminationTexts}

TerminationInit ==
    /\ tokens \in TerminationInputs
    /\ index = 0
    /\ stmts = <<>>
    /\ expecting_statement_delimiter = FALSE
    /\ pc = "loop"
    /\ result = NotYet
    /\ expr1 = None /\ text = "" /\ out = <<>>
    /\ query = "" /\ pos = 0 /\ line = 1 /\ col = 1
    /\ interval = None /\ computed = NotYet /\ matched = NotYet
    /\ DateTimeIdle
    /\ CursorIdle /\ BuildIdle /\ CopyIdle

TerminationSpec == TerminationInit /\ [][Next]_vars /\ WF_vars(Next)

\* a statement that is a query whose FROM clause holds a nested join: the
\* derived-table attempt of parse_table_factor failed and the cursor went back
IsBacktrackedQuery(stmt) ==
    /\ stmt.stmt = "Query"
    /\ stmt.query.body.set_expr = "Select"
    /\ \E i \in DOMAIN stmt.query.body.select.from :
           stmt.query.body.select.from[i].relation.factor = "NestedJoin"

\* C28: parse_sql returns on every token vector, with Ok or with Err.  Every
\* turn of its loop that does not return leaves the cursor further than it
\* found it, the backtracking of parse_table_factor inside the turn included,
\* and the cursor never goes beyond one position past the end of the tokens
\* at the end of a turn.
C28_ParseSqlTerminates ==
    /\ <>(pc = "done")
    /\ [][pc' = "loop" => index' > index]_vars
    /\ [](pc = "loop" => index <= Len(tokens) + 1)
    /\ [](pc = "done" => result.st \in {"Ok", "Err"})

\* parse_sql returned two statements, one of them parsed with backtracking
C28_Witness ==
    /\ pc = "done"
    /\ result.st = "Ok"
    /\ Len(result.val) = 2
    /\ \E i \in 1..2 : IsBacktrackedQuery(result.val[i])

=============================================================================
